---- MODULE Spec2Model ----
(***************************************************************************)
(* Caching and change-detection subsystem of mastra-test.                  *)
(*                                                                         *)
(*   SpecTtl    - CacheManager of lib/cache-manager.ts (primitive TTL      *)
(*                cache with fetch-on-miss over node-cache)                *)
(*   SpecGated  - ChangeAwareCache of lib/change-aware-cache.ts            *)
(*   SpecReload - CacheManager of lib/cache.ts, the collection part        *)
(*                (initialize / reload / checkForChanges / get / getAll)   *)
(*   SpecHash   - CacheManager of lib/cache.ts, getWithHash / setWithHash  *)
(*                                                                         *)
(* JavaScript is single-threaded: the code between two awaits is one       *)
(* atomic action; each await of an external call (loader, digest, change   *)
(* detector) is a position of the calling async function.  Time is the     *)
(* value of Date.now() in whole units; node-cache expires an entry when    *)
(* its expiry time is strictly below Date.now().                           *)
(***************************************************************************)
EXTENDS Integers, FiniteSets, Sequences, TLC

\* ---------------------------------------------------------------- bounds
MaxTime == 4
MaxVer == 2
\* configured ttl of the primitive TTL cache, in time units
Ttl == 2
\* configured ttlSeconds and checkPeriodSeconds of the reload cache
TtlSeconds == 3
CheckPeriod == 2

\* configured checkInterval and dataCacheTtl of the change-gated cache
CheckInterval == 1
DataCacheTtl == 3

\* number of agent rows the database can hold
NumAgents == 4

\* independent callers whose async calls may overlap
Callers == {"c1", "c2"}
\* keys used with the primitive TTL cache
TtlKeys == {"x"}
\* values a caller passes to set(key, data)
SetVals == {0}
\* values a caller passes as the optional ttl of set(key, data, ttl)
SetTtls == {1}

\* keys of the collection a reload cache owns
RKeys == {"a", "b"}

\* keys used with the change-gated cache
GKeys == {"x", "y"}

\* keys used with getWithHash
HKeys == {"m"}
\* the keys `model:<id>` and `instructions:<id>` of one agent
FieldKeys == {"m", "i"}

\* `undefined`, the result of a node-cache get on a missing or expired key
Undefined == -1

VARIABLES
    now,        \* Date.now()
    \* ---- primitive TTL cache (cache-manager.ts)
    tstore,     \* authoritative store: what the loader reads for each key
    tcache,     \* node-cache data table: key -> [has, v, t]
    tpc,        \* position of each caller's get(): idle/fetching/returned/raised
    tkey,       \* key of the caller's current or last get()
    tsnap,      \* value the in-flight loader call has read from the store
    tret,       \* value returned by the caller's last get()
    tloads,     \* loader invocations made by the caller's current/last get()
    tcase,      \* history: state of the key when the get() began
    tclean,     \* history: no store to the key since the get() missed
    tstored,    \* history: last store of each key [has, v, at, ttl]
    \* ---- reload cache (cache.ts, collection part)
    rstore,         \* version of the authoritative store
    rcache,         \* node-cache data table of the collection
    isInitialized,
    lastHash,
    lastCheckTime,
    rpc,            \* position of each caller's initialize()/get()/getAll()
    rop,            \* [op, key] the caller is running or ran last
    rval,           \* what the awaited loadData / getChangeHash call has read
    rpath,          \* history: the path the current call took, the version it loaded
    rswap,          \* history: the last collection swap [by, ver, at]
    rchk,           \* history: when the most recent change check began (0: never)
    boot,           \* initializeServices(): pending / running / started / failed
    \* ---- change-gated cache (change-aware-cache.ts)
    gstore,         \* authoritative store: what the data fetcher reads per key
    gprobe,         \* node-cache table of changeCheckCache
    gdata,          \* node-cache table of dataCache
    gpc,            \* position of each caller's get()/forceRefresh()
    gkey,           \* key of the caller's current call
    gop,            \* the caller's current or last call: get / forceRefresh
    gsnap,          \* value the in-flight data fetcher call has read
    gcnt,           \* [det, fet]: detector / fetcher calls of the current call
    gchg,           \* history: what the probe of the current call yielded
    gfresh,         \* history: per key, the last probe that reported a change
    \* ---- hash-verified entries (cache.ts getWithHash / setWithHash)
    hstore,         \* authoritative store: what reload() and the digest read
    hcache,         \* node-cache table over the keys `k:data` and `k:hash`
    hashCheckCache, \* key -> [has, hash, timestamp, by]
    hcall,          \* each caller's getWithHash: position and local variables
    hdigAt,         \* history: per key, when getCurrentHash was last called (-1: never)
    \* ---- collection loads (agent-manager.ts loadData, agent-config.ts getAgentsFromDb)
    lwho,           \* which loader is running: none / loadData / getAgentsFromDb
    lpc,            \* its position: idle / query / build / resolved / rejected
    lrows,          \* the rows findMany returned, in order
    lidx,           \* index of the row being built
    lout,           \* ids materialized so far (keys of the map / pushed configs)
    lfailed,        \* history: ids of this load whose build failed
    \* ---- construction of change-gated caches (change-aware-cache.ts 27-88)
    env,            \* process.env: variable name -> string (sequence of characters)
    built,          \* cache name -> [made, checkInterval, dataCacheTtl]
    \* ---- change detectors (mcp-change-detector.ts, agent-config.ts 511-545,
    \* ---- index.ts 84-144)
    dstore,         \* per detector, the state of the rows it reads (a version)
    lastKnown,      \* per detector, the last recorded state (NoState: none)
    dcall,          \* each caller's detector call [pc, det, read, ret, why]
    dprev,          \* history: per detector, the state read by the most recently
                    \* completed call if it returned true, else NoState
    \* ---- agent manager over agentCache (agent-config.ts 572-760); its store and
    \* ---- last known state are dstore / lastKnown of hasAgentListChanged
    agents,             \* the registry: names with an Agent instance
    managerInitialized, \* AgentManager.isInitialized
    aprobe,             \* changeCheckCache entry of key 'agents' [has, v, t]
    adata,              \* dataCache entry of key 'agents' [has, v, t]
    apc,                \* where the consumer's call is: idle / detect / fetch /
                        \* returned / rejected
    aread,              \* the store state the awaited query has read
    adepth,             \* agentCache.get calls suspended in the refresh callback
    acall,              \* the consumer's call and its history
    asince,             \* history: when the store changed after the consumer's
                        \* last call ended, if no call has begun since
    \* ---- one agent of agentManager and its model resolver
    \* ---- (agent-manager.ts 205-308)
    brow,               \* the agent's row in the store [modelId, description]
    bcoll,              \* the agent's entry in the collection [has, v, t]; v is
                        \* the modelId its instance captured
    bready,             \* agentManager.isInitialized
    bhash,              \* agentManager.lastHash
    bcheck,             \* agentManager.lastCheckTime
    bheld,              \* the modelId captured by the instance the last get(id)
                        \* returned; Undefined when it returned null
    bmodel,             \* perAgentCache pair of key model:<id> [has, v, hash, t]
    bverified,          \* hashCheckCache timestamp of key model:<id>
    bres,               \* the model the resolver returned last
    bsince              \* history: when modelId last changed with id, name and
                        \* description unchanged since

\* notTtl / notRel: everything outside the primitive TTL cache / the reload cache
ttlVars == <<tstore, tcache, tpc, tkey, tsnap, tret, tloads, tcase, tclean, tstored>>
relVars == <<rstore, rcache, isInitialized, lastHash, lastCheckTime, rpc, rop, rval,
             rpath, rswap, rchk, boot>>
gatedVars == <<gstore, gprobe, gdata, gpc, gkey, gop, gsnap, gcnt, gchg, gfresh>>
hashVars == <<hstore, hcache, hashCheckCache, hcall, hdigAt>>
loadVars == <<lwho, lpc, lrows, lidx, lout, lfailed>>
cfgVars == <<env, built>>
detVars == <<dstore, lastKnown, dcall, dprev>>
compVars == <<agents, managerInitialized, aprobe, adata, apc, aread, adepth, acall, asince>>
bindVars == <<brow, bcoll, bready, bhash, bcheck, bheld, bmodel, bverified, bres, bsince>>
notTtl == <<relVars, gatedVars, hashVars, loadVars, cfgVars, detVars, compVars, bindVars>>
notRel == <<ttlVars, gatedVars, hashVars, loadVars, cfgVars, detVars, compVars, bindVars>>
notGated == <<ttlVars, relVars, hashVars, loadVars, cfgVars, detVars, compVars, bindVars>>
notHash == <<ttlVars, relVars, gatedVars, loadVars, cfgVars, detVars, compVars, bindVars>>
notLoad == <<now, ttlVars, relVars, gatedVars, hashVars, cfgVars, detVars, compVars, bindVars>>
notCfg == <<now, ttlVars, relVars, gatedVars, hashVars, loadVars, detVars, compVars, bindVars>>
notDet == <<now, ttlVars, relVars, gatedVars, hashVars, loadVars, cfgVars, compVars, bindVars>>
notComp == <<ttlVars, relVars, gatedVars, hashVars, loadVars, cfgVars, bindVars>>
notBind == <<ttlVars, relVars, gatedVars, hashVars, loadVars, cfgVars, detVars, compVars>>
vars == <<now, ttlVars, relVars, gatedVars, hashVars, loadVars, cfgVars, detVars, compVars, bindVars>>

\* ============================================================ node-cache
Absent == [has |-> FALSE, v |-> Undefined, t |-> 0]

\* node-cache _check: an entry is dead when its expiry time t is set and
\* lies strictly before Date.now()
NcLive(d, k, t) == d[k].has /\ ~(d[k].t # 0 /\ d[k].t < t)

\* node-cache get: the value of a live entry, else undefined
NcGet(d, k, t) == IF NcLive(d, k, t) THEN d[k].v ELSE Undefined

\* node-cache get deletes the entry it finds expired (deleteOnExpire)
NcAfterGet(d, k, t) == IF d[k].has /\ ~NcLive(d, k, t) THEN [d EXCEPT ![k] = Absent] ELSE d

\* node-cache set with ttl seconds: expiry = now + ttl
NcSet(d, k, v, ttl, t) == [d EXCEPT ![k] = [has |-> TRUE, v |-> v, t |-> t + ttl]]

NcDel(d, k) == [d EXCEPT ![k] = Absent]

NcFlushAll(d) == [k \in DOMAIN d |-> Absent]

\* node-cache keys(): every stored key, expired-but-unswept ones included
NcKeys(d) == {k \in DOMAIN d : d[k].has}

\* node-cache periodic checkData: drops every expired entry
NcSweep(d, t) == [k \in DOMAIN d |-> IF NcLive(d, k, t) THEN d[k] ELSE Absent]

\* ================================================= primitive TTL cache
NoStore == [has |-> FALSE, v |-> Undefined, at |-> 0, ttl |-> 0]

\* history record of a store of value v at time t with lifetime ttl
Stored(v, t, ttl) == [has |-> TRUE, v |-> v, at |-> t, ttl |-> ttl]

\* the TTL of the last store of k has not elapsed / has elapsed
Unexpired(k) == tstored[k].has /\ now - tstored[k].at <= tstored[k].ttl
Elapsed(k) == tstored[k].has /\ now - tstored[k].at > tstored[k].ttl

KeyCase(k) == IF Unexpired(k) THEN "unexpired" ELSE IF Elapsed(k) THEN "elapsed" ELSE "absent"

\* callers whose history flag a store to key k resets
Dirtied(k) == [c \in Callers |-> IF tkey[c] = k THEN FALSE ELSE tclean[c]]

TtlIdle ==
    /\ tstore = [k \in TtlKeys |-> 1]
    /\ tcache = [k \in TtlKeys |-> Absent]
    /\ tpc = [c \in Callers |-> "idle"]
    /\ tkey = [c \in Callers |-> CHOOSE k \in TtlKeys : TRUE]
    /\ tsnap = [c \in Callers |-> Undefined]
    /\ tret = [c \in Callers |-> Undefined]
    /\ tloads = [c \in Callers |-> 0]
    /\ tcase = [c \in Callers |-> "none"]
    /\ tclean = [c \in Callers |-> FALSE]
    /\ tstored = [k \in TtlKeys |-> NoStore]

\* Date.now() advances, up to the model's horizon
Tick(last) ==
    /\ now < last
    /\ now' = now + 1

\* the authoritative store changes behind the cache's back
TStoreChange(k) ==
    /\ tstore[k] < MaxVer
    /\ tstore' = [tstore EXCEPT ![k] = @ + 1]
    /\ UNCHANGED <<notTtl, now, tcache, tpc, tkey, tsnap, tret, tloads, tcase, tclean, tstored>>

\* get(key) without the hit branch: every call goes to the loader
TGet_AlwaysFetch(c, k) ==
    /\ tpc[c] # "fetching"
    /\ tkey' = [tkey EXCEPT ![c] = k]
    /\ tcase' = [tcase EXCEPT ![c] = KeyCase(k)]
    /\ tcache' = NcAfterGet(tcache, k, now)
    /\ tpc' = [tpc EXCEPT ![c] = "fetching"]
    /\ tret' = [tret EXCEPT ![c] = Undefined]
    /\ tloads' = [tloads EXCEPT ![c] = 1]
    /\ tsnap' = [tsnap EXCEPT ![c] = tstore[k]]
    /\ tclean' = [tclean EXCEPT ![c] = TRUE]
    /\ UNCHANGED <<notTtl, now, tstore, tstored>>

\* get(key) that serves whatever entry is in the table, expired or not
TGet_IgnoresExpiry(c, k) ==
    /\ tpc[c] # "fetching"
    /\ tkey' = [tkey EXCEPT ![c] = k]
    /\ tcase' = [tcase EXCEPT ![c] = KeyCase(k)]
    /\ IF tcache[k].has
       THEN /\ tpc' = [tpc EXCEPT ![c] = "returned"]
            /\ tret' = [tret EXCEPT ![c] = tcache[k].v]
            /\ tloads' = [tloads EXCEPT ![c] = 0]
            /\ tsnap' = [tsnap EXCEPT ![c] = Undefined]
            /\ tclean' = [tclean EXCEPT ![c] = FALSE]
       ELSE /\ tpc' = [tpc EXCEPT ![c] = "fetching"]
            /\ tret' = [tret EXCEPT ![c] = Undefined]
            /\ tloads' = [tloads EXCEPT ![c] = 1]
            /\ tsnap' = [tsnap EXCEPT ![c] = tstore[k]]
            /\ tclean' = [tclean EXCEPT ![c] = TRUE]
    /\ UNCHANGED <<notTtl, now, tstore, tstored, tcache>>

\* get(key), lines 63-81: hit returns the cached value; a miss calls the
\* loader and suspends at the await
TGet(c, k) ==
    /\ tpc[c] # "fetching"
    /\ tkey' = [tkey EXCEPT ![c] = k]
    /\ tcase' = [tcase EXCEPT ![c] = KeyCase(k)]
    /\ tcache' = NcAfterGet(tcache, k, now)
    /\ IF NcGet(tcache, k, now) # Undefined
       THEN /\ tpc' = [tpc EXCEPT ![c] = "returned"]
            /\ tret' = [tret EXCEPT ![c] = NcGet(tcache, k, now)]
            /\ tloads' = [tloads EXCEPT ![c] = 0]
            /\ tsnap' = [tsnap EXCEPT ![c] = Undefined]
            /\ tclean' = [tclean EXCEPT ![c] = FALSE]
       ELSE /\ tpc' = [tpc EXCEPT ![c] = "fetching"]
            /\ tret' = [tret EXCEPT ![c] = Undefined]
            /\ tloads' = [tloads EXCEPT ![c] = 1]
            /\ tsnap' = [tsnap EXCEPT ![c] = tstore[k]]
            /\ tclean' = [tclean EXCEPT ![c] = TRUE]
    /\ UNCHANGED <<notTtl, now, tstore, tstored>>

\* the awaited loader resolves, lines 81-83: store with the standard TTL
\* and return the data
TLoaderOk(c) ==
    /\ tpc[c] = "fetching"
    /\ tcache' = NcSet(tcache, tkey[c], tsnap[c], Ttl, now)
    /\ tstored' = [tstored EXCEPT ![tkey[c]] = Stored(tsnap[c], now, Ttl)]
    /\ tpc' = [tpc EXCEPT ![c] = "returned"]
    /\ tret' = [tret EXCEPT ![c] = tsnap[c]]
    /\ tclean' = [Dirtied(tkey[c]) EXCEPT ![c] = FALSE]
    /\ UNCHANGED <<notTtl, now, tstore, tkey, tsnap, tloads, tcase>>

\* a rejected loader that caches a placeholder value (negative caching)
TLoaderFail_NegativeCache(c) ==
    /\ tpc[c] = "fetching"
    /\ tpc' = [tpc EXCEPT ![c] = "raised"]
    /\ tcache' = NcSet(tcache, tkey[c], 0, Ttl, now)
    /\ UNCHANGED <<notTtl, now, tstore, tkey, tsnap, tret, tloads, tcase, tclean, tstored>>

\* the awaited loader rejects, lines 84-92: log and rethrow
TLoaderFail(c) ==
    /\ tpc[c] = "fetching"
    /\ tpc' = [tpc EXCEPT ![c] = "raised"]
    /\ UNCHANGED <<notTtl, now, tstore, tcache, tkey, tsnap, tret, tloads, tcase, tclean, tstored>>

\* set(key, data, ttl), lines 98-103; TSet is the call without ttl, which
\* stores with the standard TTL
TSetTtl(k, v, ttl) ==
    /\ tcache' = NcSet(tcache, k, v, ttl, now)
    /\ tstored' = [tstored EXCEPT ![k] = Stored(v, now, ttl)]
    /\ tclean' = Dirtied(k)
    /\ UNCHANGED <<notTtl, now, tstore, tpc, tkey, tsnap, tret, tloads, tcase>>

TSet(k, v) == TSetTtl(k, v, Ttl)

\* clear(key), lines 123-125
TClear(k) ==
    /\ tcache[k].has
    /\ tcache' = NcDel(tcache, k)
    /\ tstored' = [tstored EXCEPT ![k] = NoStore]
    /\ UNCHANGED <<notTtl, now, tstore, tpc, tkey, tsnap, tret, tloads, tcase, tclean>>

\* clearAll(), lines 130-135
TClearAll ==
    /\ NcKeys(tcache) # {}
    /\ tcache' = NcFlushAll(tcache)
    /\ tstored' = [k \in TtlKeys |-> NoStore]
    /\ UNCHANGED <<notTtl, now, tstore, tpc, tkey, tsnap, tret, tloads, tcase, tclean>>

\* the periodic sweep of node-cache (checkperiod)
TSweep ==
    /\ NcSweep(tcache, now) # tcache
    /\ tcache' = NcSweep(tcache, now)
    /\ UNCHANGED <<notTtl, now, tstore, tpc, tkey, tsnap, tret, tloads, tcase, tclean, tstored>>

TtlTick == Tick(MaxTime) /\ UNCHANGED <<notTtl, ttlVars>>

\* ================================================ reload cache (cache.ts)
\* the initial `null` of lastHash
Null == <<"null", 0>>

\* getChangeHash(): the digest of store state v (SHA-256, taken as injective)
Digest(v) == <<"sha256", v>>

\* keys and items of the authoritative collection in store state v
\* (1: {a:1}, 2: {a:2, b:3}, 3: {b:4}, ...)
KeysOf(v) == CASE v % 3 = 1 -> {"a"} [] v % 3 = 2 -> {"a", "b"} [] OTHER -> {"b"}
ItemOf(v, k) == IF k = "a" THEN v ELSE v + 1

\* loadData(): the map read from store state v, Undefined where it has no key
Collection(v) == [k \in RKeys |-> IF k \in KeysOf(v) THEN ItemOf(v, k) ELSE Undefined]

\* a reload that is cut short after the first entry of the set loop
ReloadTable_Partial(v, t) ==
    [k \in RKeys |-> IF Collection(v)[k] # Undefined /\ k = "a"
                     THEN NcSet(NcFlushAll(rcache), k, Collection(v)[k], TtlSeconds, t)[k]
                     ELSE Absent]

\* reload(), lines 88-92: flushAll, then set every loaded entry with stdTTL
ReloadTable(v, t) ==
    [k \in RKeys |-> IF Collection(v)[k] # Undefined
                     THEN NcSet(NcFlushAll(rcache), k, Collection(v)[k], TtlSeconds, t)[k]
                     ELSE Absent]

\* the item of k in the collection swapped in last, as long as its
\* ttlSeconds have not elapsed
InMemory(k) ==
    IF rswap.ver = 0 \/ now - rswap.at > TtlSeconds THEN Undefined
    ELSE Collection(rswap.ver)[k]

\* what get/getAll see of table d at time t: live entries only
LiveView(d, t) == [k \in RKeys |-> NcGet(d, k, t)]

NoAnswer == [k \in RKeys |-> Undefined]
NoCall == [op |-> "none", key |-> "a"]
NoPath == [tag |-> "none", ver |-> 0]
Path(tag) == [tag |-> tag, ver |-> 0]

\* a completed call leaves the caller idle
Finish(c) ==
    /\ rpc' = [rpc EXCEPT ![c] = "idle"]
    /\ rop' = [rop EXCEPT ![c] = NoCall]
    /\ rpath' = [rpath EXCEPT ![c] = NoPath]
    /\ rval' = [rval EXCEPT ![c] = 0]

\* the authoritative store and the reload cache right after construction
\* (lines 43-45)
RelIdle ==
    /\ rstore = 1
    /\ rcache = [k \in RKeys |-> Absent]
    /\ isInitialized = FALSE
    /\ lastHash = Null
    /\ lastCheckTime = 0
    /\ rpc = [c \in Callers |-> "idle"]
    /\ rop = [c \in Callers |-> NoCall]
    /\ rval = [c \in Callers |-> 0]
    /\ rpath = [c \in Callers |-> NoPath]
    /\ rswap = [by |-> "none", ver |-> 0, at |-> 0]
    /\ rchk = 0
    /\ boot = "pending"

RStoreChange ==
    /\ rstore < MaxVer
    /\ rstore' = rstore + 1
    /\ UNCHANGED <<notRel, boot, rchk, now, rcache, isInitialized, lastHash, lastCheckTime, rpc, rop,
                   rval, rpath, rswap>>

\* initialize() up to its first suspension, lines 64-73: returns at once
\* when initialized, else reload() calls loadData and suspends
InitializeCall(c, op) ==
    /\ rpc[c] = "idle"
    /\ rop' = [rop EXCEPT ![c] = [op |-> op, key |-> "a"]]
    /\ IF isInitialized
       THEN /\ rpc' = [rpc EXCEPT ![c] = "resolved"]
            /\ rpath' = [rpath EXCEPT ![c] = Path("noop")]
            /\ UNCHANGED rval
       ELSE /\ rpc' = [rpc EXCEPT ![c] = "load"]
            /\ rval' = [rval EXCEPT ![c] = rstore]
            /\ UNCHANGED rpath
    /\ UNCHANGED <<notRel, rchk, now, rstore, rcache, isInitialized, lastHash, lastCheckTime, rswap>>

\* an initialize() that loads again although the cache is initialized
RInitialize_Reloads(c) ==
    /\ rpc[c] = "idle"
    /\ rop' = [rop EXCEPT ![c] = [op |-> "init", key |-> "a"]]
    /\ rpc' = [rpc EXCEPT ![c] = "load"]
    /\ rval' = [rval EXCEPT ![c] = rstore]
    /\ UNCHANGED <<notRel, boot, rchk, now, rstore, rcache, isInitialized, lastHash, lastCheckTime,
                   rswap, rpath>>

\* initialize() called by a consumer
RInitialize(c) ==
    /\ InitializeCall(c, "init")
    /\ UNCHANGED boot

\* initializeServices(), lines 14-21 of the startup module: the managers
\* before agentManager have initialized; agentManager.initialize() is called
RInitializeServices(c) ==
    /\ boot = "pending"
    /\ boot' = "running"
    /\ InitializeCall(c, "boot")

\* a startup that logs the rejection and carries on
RSettle_Continues(c) ==
    /\ rpc[c] \in {"resolved", "rejected"}
    /\ boot' = IF rop[c].op # "boot" THEN boot ELSE "started"
    /\ Finish(c)
    /\ UNCHANGED <<notRel, rchk, now, rstore, rcache, isInitialized, lastHash, lastCheckTime, rswap>>

\* the awaited initialize() settles: a consumer's call is over;
\* initializeServices() completes on a resolution and rethrows a rejection
\* (lines 23-27 of the startup module)
RSettle(c) ==
    /\ rpc[c] \in {"resolved", "rejected"}
    /\ boot' = IF rop[c].op # "boot" THEN boot
               ELSE IF rpc[c] = "resolved" THEN "started" ELSE "failed"
    /\ Finish(c)
    /\ UNCHANGED <<notRel, rchk, now, rstore, rcache, isInitialized, lastHash, lastCheckTime, rswap>>

\* a change check that forgets to stamp lastCheckTime
RCall_NoStamp(c, op, k) ==
    /\ rpc[c] = "idle"
    /\ rop' = [rop EXCEPT ![c] = [op |-> op, key |-> k]]
    /\ IF now - lastCheckTime < CheckPeriod
       THEN /\ rpc' = [rpc EXCEPT ![c] = "read"]
            /\ rpath' = [rpath EXCEPT ![c] = Path("throttled")]
            /\ UNCHANGED <<rval, rchk>>
       ELSE /\ rchk' = now
            /\ rpc' = [rpc EXCEPT ![c] = "chkDigest"]
            /\ rval' = [rval EXCEPT ![c] = rstore]
            /\ UNCHANGED rpath
    /\ UNCHANGED <<notRel, boot, now, rstore, rcache, isInitialized, lastHash, lastCheckTime, rswap>>

\* get(key)/getAll() up to the first suspension: checkForChanges(), lines
\* 102-119, either returns throttled or stamps lastCheckTime and calls
\* getChangeHash
RCall(c, op, k) ==
    /\ rpc[c] = "idle"
    /\ rop' = [rop EXCEPT ![c] = [op |-> op, key |-> k]]
    /\ IF now - lastCheckTime < CheckPeriod
       THEN /\ rpc' = [rpc EXCEPT ![c] = "read"]
            /\ rpath' = [rpath EXCEPT ![c] = Path("throttled")]
            /\ UNCHANGED <<lastCheckTime, rval, rchk>>
       ELSE /\ lastCheckTime' = now
            /\ rchk' = now
            /\ rpc' = [rpc EXCEPT ![c] = "chkDigest"]
            /\ rval' = [rval EXCEPT ![c] = rstore]
            /\ UNCHANGED rpath
    /\ UNCHANGED <<notRel, boot, now, rstore, rcache, isInitialized, lastHash, rswap>>

RGet(c, k) == RCall(c, "get", k)

RGetAll(c) == RCall(c, "getAll", "a")

\* a change check that never finds a difference
RCheckDigestOk_NeverReload(c) ==
    /\ rpc[c] = "chkDigest"
    /\ rpc' = [rpc EXCEPT ![c] = "read"]
    /\ rpath' = [rpath EXCEPT ![c] = Path("equal")]
    /\ rval' = [rval EXCEPT ![c] = 0]
    /\ UNCHANGED <<notRel, boot, rchk, now, rstore, rcache, isInitialized, lastHash, lastCheckTime, rop,
                   rswap>>

\* getChangeHash of the change check resolves, lines 119-126: a digest other
\* than lastHash starts reload(), which calls loadData and suspends
RCheckDigestOk(c) ==
    /\ rpc[c] = "chkDigest"
    /\ IF Digest(rval[c]) # lastHash
       THEN /\ rpc' = [rpc EXCEPT ![c] = "load"]
            /\ rpath' = [rpath EXCEPT ![c] = Path("changed")]
            /\ rval' = [rval EXCEPT ![c] = rstore]
       ELSE /\ rpc' = [rpc EXCEPT ![c] = "read"]
            /\ rpath' = [rpath EXCEPT ![c] = Path("equal")]
            /\ rval' = [rval EXCEPT ![c] = 0]
    /\ UNCHANGED <<notRel, boot, rchk, now, rstore, rcache, isInitialized, lastHash, lastCheckTime, rop,
                   rswap>>

\* a change check that lets the digest failure escape to the caller
RCheckDigestFail_Rethrows(c) ==
    /\ rpc[c] = "chkDigest"
    /\ rpc' = [rpc EXCEPT ![c] = "rejected"]
    /\ rpath' = [rpath EXCEPT ![c] = Path("checkFailed")]
    /\ rval' = [rval EXCEPT ![c] = 0]
    /\ UNCHANGED <<notRel, boot, rchk, now, rstore, rcache, isInitialized, lastHash, lastCheckTime, rop,
                   rswap>>

\* getChangeHash of the change check rejects, lines 127-129: logged, swallowed
RCheckDigestFail(c) ==
    /\ rpc[c] = "chkDigest"
    /\ rpc' = [rpc EXCEPT ![c] = "read"]
    /\ rpath' = [rpath EXCEPT ![c] = Path("checkFailed")]
    /\ rval' = [rval EXCEPT ![c] = 0]
    /\ UNCHANGED <<notRel, boot, rchk, now, rstore, rcache, isInitialized, lastHash, lastCheckTime, rop,
                   rswap>>

\* loadData resolves, lines 86-94: flushAll and the set loop run without
\* suspension, then getChangeHash is called
RLoadOk(c) ==
    /\ rpc[c] = "load"
    /\ rcache' = ReloadTable(rval[c], now)
    /\ rswap' = [by |-> c, ver |-> rval[c], at |-> now]
    /\ rpath' = [rpath EXCEPT ![c] = [tag |-> "swapped", ver |-> rval[c]]]
    /\ rpc' = [rpc EXCEPT ![c] = "relDigest"]
    /\ rval' = [rval EXCEPT ![c] = rstore]
    /\ UNCHANGED <<notRel, boot, rchk, now, rstore, isInitialized, lastHash, lastCheckTime, rop>>

\* reload() throws (lines 96-99): initialize() rethrows (78-81), the change
\* check of get/getAll catches it (127-129) and the call goes on to read
RReloadThrows(c, tag) ==
    /\ rpc' = [rpc EXCEPT ![c] = IF rop[c].op \in {"init", "boot"} THEN "rejected" ELSE "read"]
    /\ rpath' = [rpath EXCEPT ![c].tag = tag]
    /\ rval' = [rval EXCEPT ![c] = 0]
    /\ UNCHANGED rop
    /\ UNCHANGED <<notRel, boot, rchk, now, rstore, rcache, isInitialized, lastHash, lastCheckTime, rswap>>

\* a reload that empties the table before it calls loadData
RLoadFail_FlushFirst(c) ==
    /\ rpc[c] = "load"
    /\ rcache' = NcFlushAll(rcache)
    /\ rpc' = [rpc EXCEPT ![c] = IF rop[c].op \in {"init", "boot"} THEN "rejected" ELSE "read"]
    /\ rpath' = [rpath EXCEPT ![c].tag = "loadFailed"]
    /\ rval' = [rval EXCEPT ![c] = 0]
    /\ UNCHANGED <<notRel, boot, rchk, now, rstore, isInitialized, lastHash, lastCheckTime, rswap, rop>>

\* loadData rejects, line 86
RLoadFail(c) ==
    /\ rpc[c] = "load"
    /\ RReloadThrows(c, "loadFailed")

\* getChangeHash of reload() resolves, line 94: the digest is recorded;
\* initialize() then sets isInitialized (line 74)
RReloadDigestOk(c) ==
    /\ rpc[c] = "relDigest"
    /\ lastHash' = Digest(rval[c])
    /\ isInitialized' = (isInitialized \/ rop[c].op \in {"init", "boot"})
    /\ rpc' = [rpc EXCEPT ![c] = IF rop[c].op \in {"init", "boot"} THEN "resolved" ELSE "read"]
    /\ rpath' = [rpath EXCEPT ![c].tag = "reloaded"]
    /\ rval' = [rval EXCEPT ![c] = 0]
    /\ UNCHANGED rop
    /\ UNCHANGED <<notRel, boot, rchk, now, rstore, rcache, lastCheckTime, rswap>>

\* a reload that forgets the stored digest when its digest call fails
RReloadDigestFail_ClearsDigest(c) ==
    /\ rpc[c] = "relDigest"
    /\ lastHash' = Null
    /\ rpc' = [rpc EXCEPT ![c] = IF rop[c].op \in {"init", "boot"} THEN "rejected" ELSE "read"]
    /\ rpath' = [rpath EXCEPT ![c].tag = "digestFailed"]
    /\ rval' = [rval EXCEPT ![c] = 0]
    /\ UNCHANGED <<notRel, boot, rchk, now, rstore, rcache, isInitialized, lastCheckTime, rswap, rop>>

\* getChangeHash of reload() rejects, line 94
RReloadDigestFail(c) ==
    /\ rpc[c] = "relDigest"
    /\ RReloadThrows(c, "digestFailed")

\* what get(key), line 139, or getAll(), lines 153-163, answers when it
\* resumes after the awaited change check
Answer(c) ==
    IF rop[c].op = "get"
    THEN [NoAnswer EXCEPT ![rop[c].key] = NcGet(rcache, rop[c].key, now)]
    ELSE LiveView(rcache, now)

\* get(key), lines 139-147, and getAll(), lines 153-163, after the awaited
\* change check: answer from the table (node-cache drops the expired entries
\* it reads)
RRead(c) ==
    /\ rpc[c] = "read"
    /\ Finish(c)
    /\ rcache' = IF rop[c].op = "get" THEN NcAfterGet(rcache, rop[c].key, now)
                                      ELSE NcSweep(rcache, now)
    /\ UNCHANGED <<notRel, boot, rchk, now, rstore, isInitialized, lastHash, lastCheckTime, rswap>>

\* the periodic sweep of node-cache (checkperiod)
RSweep ==
    /\ NcSweep(rcache, now) # rcache
    /\ rcache' = NcSweep(rcache, now)
    /\ UNCHANGED <<notRel, boot, rchk, now, rstore, isInitialized, lastHash, lastCheckTime, rpc, rop,
                   rval, rpath, rswap>>

RelTick == Tick(CheckPeriod + MaxTime) /\ UNCHANGED <<notRel, relVars>>

\* the reload cache used by the callers cs, who issue initialize(),
\* getAll() and get(k) for the keys ks; the callers bs may run startup
RelNextOf(cs, ks, bs) ==
    \/ RelTick
    \/ RStoreChange
    \/ \E c \in bs : RInitializeServices(c)
    \/ \E c \in cs : RInitialize(c)
    \/ \E c \in cs : RSettle(c)
    \/ \E c \in cs, k \in ks : RGet(c, k)
    \/ \E c \in cs : RGetAll(c)
    \/ \E c \in cs : RCheckDigestOk(c)
    \/ \E c \in cs : RCheckDigestFail(c)
    \/ \E c \in cs : RLoadOk(c)
    \/ \E c \in cs : RLoadFail(c)
    \/ \E c \in cs : RReloadDigestOk(c)
    \/ \E c \in cs : RReloadDigestFail(c)
    \/ \E c \in cs : RRead(c)
    \/ RSweep

\* ================================ change-gated cache (change-aware-cache.ts)
NoCount == [det |-> 0, fet |-> 0]
NoProbe == [at |-> 0, ok |-> FALSE, evicted |-> FALSE]

\* the change-gated cache and its store right after construction; the two
\* tiers are CacheManager instances of cache-manager.ts (lines 44-87)
GatedIdle ==
    /\ gstore = [k \in GKeys |-> 1]
    /\ gprobe = [k \in GKeys |-> Absent]
    /\ gdata = [k \in GKeys |-> Absent]
    /\ gpc = [c \in Callers |-> "idle"]
    /\ gkey = [c \in Callers |-> "x"]
    /\ gop = [c \in Callers |-> "none"]
    /\ gsnap = [c \in Callers |-> Undefined]
    /\ gcnt = [c \in Callers |-> NoCount]
    /\ gchg = [c \in Callers |-> "none"]
    /\ gfresh = [k \in GKeys |-> NoProbe]

\* a completed call leaves the caller idle
GFinish(c) ==
    /\ gpc' = [gpc EXCEPT ![c] = "idle"]
    /\ gsnap' = [gsnap EXCEPT ![c] = Undefined]
    /\ gcnt' = [gcnt EXCEPT ![c] = NoCount]
    /\ gchg' = [gchg EXCEPT ![c] = "none"]

GStoreChange(k) ==
    /\ gstore[k] < MaxVer
    /\ gstore' = [gstore EXCEPT ![k] = @ + 1]
    /\ UNCHANGED <<notGated, now, gprobe, gdata, gpc, gkey, gop, gsnap, gcnt, gchg, gfresh>>

\* changeCheckCache.get(key) as called from get(), line 95: a live probe
\* entry is a hit; a miss runs the probe loader, which calls the change
\* detector (line 68) and suspends.  probe, data: the tables at the call
GProbeGet(c, k, probe) ==
    /\ gkey' = [gkey EXCEPT ![c] = k]
    /\ gprobe' = NcAfterGet(probe, k, now)
    /\ gsnap' = [gsnap EXCEPT ![c] = Undefined]
    /\ IF NcGet(probe, k, now) # Undefined
       THEN /\ gpc' = [gpc EXCEPT ![c] = "afterProbe"]
            /\ gchg' = [gchg EXCEPT ![c] = "hit"]
            /\ gcnt' = [gcnt EXCEPT ![c] = NoCount]
       ELSE /\ gpc' = [gpc EXCEPT ![c] = "detecting"]
            /\ gchg' = [gchg EXCEPT ![c] = "none"]
            /\ gcnt' = [gcnt EXCEPT ![c] = [det |-> 1, fet |-> 0]]

\* get(key), lines 93-95
GGet(c, k) ==
    /\ gpc[c] = "idle"
    /\ gop' = [gop EXCEPT ![c] = "get"]
    /\ GProbeGet(c, k, gprobe)
    /\ UNCHANGED <<notGated, now, gstore, gdata, gfresh>>

\* a probe loader that stores the detector's result and leaves the data
\* tier alone
GDetectOk_KeepsData(c, changed) ==
    /\ gpc[c] = "detecting"
    /\ gprobe' = NcSet(gprobe, gkey[c], IF changed THEN 1 ELSE 0, CheckInterval, now)
    /\ gpc' = [gpc EXCEPT ![c] = "afterProbe"]
    /\ gchg' = [gchg EXCEPT ![c] = IF ~changed THEN "same"
                                   ELSE IF NcLive(gdata, gkey[c], now) THEN "evicted"
                                   ELSE "changed"]
    /\ gfresh' = IF changed
                 THEN [gfresh EXCEPT ![gkey[c]] = [at |-> now, ok |-> FALSE,
                                                   evicted |-> NcLive(gdata, gkey[c], now)]]
                 ELSE gfresh
    /\ UNCHANGED <<notGated, now, gstore, gdata, gkey, gop, gsnap, gcnt>>

\* the change detector resolves, lines 68-83: a reported change evicts the
\* data entry; the result is stored in the probe tier for checkInterval
GDetectOk(c, changed) ==
    /\ gpc[c] = "detecting"
    /\ gdata' = IF changed THEN NcDel(gdata, gkey[c]) ELSE gdata
    /\ gprobe' = NcSet(gprobe, gkey[c], IF changed THEN 1 ELSE 0, CheckInterval, now)
    /\ gpc' = [gpc EXCEPT ![c] = "afterProbe"]
    /\ gchg' = [gchg EXCEPT ![c] = IF ~changed THEN "same"
                                   ELSE IF NcLive(gdata, gkey[c], now) THEN "evicted"
                                   ELSE "changed"]
    /\ gfresh' = IF changed
                 THEN [gfresh EXCEPT ![gkey[c]] = [at |-> now, ok |-> FALSE,
                                                   evicted |-> NcLive(gdata, gkey[c], now)]]
                 ELSE gfresh
    /\ UNCHANGED <<notGated, now, gstore, gkey, gop, gsnap, gcnt>>

\* the change detector rejects: the probe loader's failure is rethrown by
\* CacheManager.get (cache-manager.ts 84-92) and by the await of line 95
GDetectFail(c) ==
    /\ gpc[c] = "detecting"
    /\ GFinish(c)
    /\ UNCHANGED <<notGated, now, gstore, gprobe, gdata, gkey, gop, gfresh>>

\* dataCache.get(key), line 98, after the awaited probe: a live entry is
\* returned, a miss calls the data fetcher (lines 45-52) and suspends
GDataGet(c) ==
    /\ gpc[c] = "afterProbe"
    /\ gdata' = NcAfterGet(gdata, gkey[c], now)
    /\ IF NcGet(gdata, gkey[c], now) # Undefined
       THEN /\ GFinish(c)
            /\ gfresh' = IF gchg[c] \in {"changed", "evicted"}
                         THEN [gfresh EXCEPT ![gkey[c]].ok = TRUE] ELSE gfresh
       ELSE /\ gpc' = [gpc EXCEPT ![c] = "fetching"]
            /\ gsnap' = [gsnap EXCEPT ![c] = gstore[gkey[c]]]
            /\ gcnt' = [gcnt EXCEPT ![c].fet = @ + 1]
            /\ UNCHANGED <<gchg, gfresh>>
    /\ UNCHANGED <<notGated, now, gstore, gprobe, gkey, gop>>

\* what the get() of c returns when it completes at this step
GAnswer(c) == IF gpc[c] = "fetching" THEN gsnap[c] ELSE NcGet(gdata, gkey[c], now)

\* the data fetcher resolves (cache-manager.ts 81-83): store for
\* dataCacheTtl and return
GFetchOk(c) ==
    /\ gpc[c] = "fetching"
    /\ gdata' = NcSet(gdata, gkey[c], gsnap[c], DataCacheTtl, now)
    /\ gfresh' = IF gchg[c] \in {"changed", "evicted"}
                 THEN [gfresh EXCEPT ![gkey[c]].ok = TRUE] ELSE gfresh
    /\ GFinish(c)
    /\ UNCHANGED <<notGated, now, gstore, gprobe, gkey, gop>>

\* the data fetcher rejects (cache-manager.ts 84-92): rethrown, nothing stored
GFetchFail(c) ==
    /\ gpc[c] = "fetching"
    /\ GFinish(c)
    /\ UNCHANGED <<notGated, now, gstore, gprobe, gdata, gkey, gop, gfresh>>

\* an invalidate that flushes both tiers
GInvalidate_AllKeys(c, k) ==
    /\ gpc[c] = "idle"
    /\ gdata' = NcFlushAll(gdata)
    /\ gprobe' = NcFlushAll(gprobe)
    /\ gfresh' = [gfresh EXCEPT ![k] = NoProbe]
    /\ UNCHANGED <<notGated, now, gstore, gpc, gkey, gop, gsnap, gcnt, gchg>>

\* invalidate(key), lines 104-112, called by c between its own calls
GInvalidate(c, k) ==
    /\ gpc[c] = "idle"
    /\ gdata' = NcDel(gdata, k)
    /\ gprobe' = NcDel(gprobe, k)
    /\ gfresh' = [gfresh EXCEPT ![k] = NoProbe]
    /\ UNCHANGED <<notGated, now, gstore, gpc, gkey, gop, gsnap, gcnt, gchg>>

\* forceRefresh(key), lines 128-131: invalidate, then get up to its first
\* suspension
GForceRefresh(c, k) ==
    /\ gpc[c] = "idle"
    /\ gdata' = NcDel(gdata, k)
    /\ gfresh' = [gfresh EXCEPT ![k] = NoProbe]
    /\ gop' = [gop EXCEPT ![c] = "forceRefresh"]
    /\ GProbeGet(c, k, NcDel(gprobe, k))
    /\ UNCHANGED <<notGated, now, gstore>>

\* clearAll(), lines 117-123
GClearAll(c) ==
    /\ gpc[c] = "idle"
    /\ NcKeys(gdata) \cup NcKeys(gprobe) # {}
    /\ gdata' = NcFlushAll(gdata)
    /\ gprobe' = NcFlushAll(gprobe)
    /\ gfresh' = [k \in GKeys |-> NoProbe]
    /\ UNCHANGED <<notGated, now, gstore, gpc, gkey, gop, gsnap, gcnt, gchg>>

\* set(key, data), lines 154-156
GSet(c, k, v) ==
    /\ gpc[c] = "idle"
    /\ gdata' = NcSet(gdata, k, v, DataCacheTtl, now)
    /\ UNCHANGED <<notGated, now, gstore, gprobe, gpc, gkey, gop, gsnap, gcnt, gchg, gfresh>>

\* the periodic sweeps of the two node-cache instances
GSweep ==
    /\ <<NcSweep(gprobe, now), NcSweep(gdata, now)>> # <<gprobe, gdata>>
    /\ gprobe' = NcSweep(gprobe, now)
    /\ gdata' = NcSweep(gdata, now)
    /\ UNCHANGED <<notGated, now, gstore, gpc, gkey, gop, gsnap, gcnt, gchg, gfresh>>

\* what a fetcher that catches its failed query resolves with: the empty
\* list, which no store state here holds (mcp-config.ts 37-40,
\* agent-config.ts 423-426)
EmptyList == 0

\* the data fetcher's query fails: getMcpServersFromDb / getAgentsFromDb
\* catch the error and resolve with [], which CacheManager.get stores for
\* dataCacheTtl and returns like any other result (cache-manager.ts 78-83)
GFetchEmpty(c) ==
    /\ gpc[c] = "fetching"
    /\ gdata' = NcSet(gdata, gkey[c], EmptyList, DataCacheTtl, now)
    /\ GFinish(c)
    /\ UNCHANGED <<notGated, now, gstore, gprobe, gkey, gop, gfresh>>

GatedTick == Tick(MaxTime) /\ UNCHANGED <<notGated, gatedVars>>

\* the change-gated cache used by the callers cs on the keys ks
GatedNextOf(cs, ks) ==
    \/ GatedTick
    \/ \E k \in ks : GStoreChange(k)
    \/ \E c \in cs, k \in ks : GGet(c, k)
    \/ \E c \in cs, changed \in BOOLEAN : GDetectOk(c, changed)
    \/ \E c \in cs : GDetectFail(c)
    \/ \E c \in cs : GDataGet(c)
    \/ \E c \in cs : GFetchOk(c)
    \/ \E c \in cs : GFetchFail(c)
    \/ \E c \in cs, k \in ks : GInvalidate(c, k)
    \/ \E c \in cs, k \in ks : GForceRefresh(c, k)
    \/ \E c \in cs : GClearAll(c)
    \/ \E c \in cs, k \in ks, v \in SetVals : GSet(c, k, v)
    \/ GSweep

\* ============================= hash-verified entries (cache.ts, 170-218)
\* the digest the caller's getCurrentHash yields for store state v
HashOf(v) == 100 + v

\* the node-cache keys `${key}:data` and `${key}:hash`
DataKey(k) == <<k, "data">>
HashKey(k) == <<k, "hash">>

NoCheck == [has |-> FALSE, hash |-> Undefined, timestamp |-> 0, by |-> "none"]

\* a caller with no getWithHash in progress
NoHCall == [pc |-> "idle", key |-> "m", now |-> 0, cachedData |-> Undefined,
            cachedHash |-> Undefined, read |-> Undefined, newData |-> Undefined,
            dig |-> 0, rel |-> 0, why |-> "none"]

HashIdle ==
    /\ hstore = [k \in FieldKeys |-> 1]
    /\ hcache = [e \in FieldKeys \X {"data", "hash"} |-> Absent]
    /\ hashCheckCache = [k \in FieldKeys |-> NoCheck]
    /\ hcall = [c \in Callers |-> NoHCall]
    /\ hdigAt = [k \in FieldKeys |-> -1]

\* both entries of k are stored and unexpired
PairLive(k) == NcLive(hcache, DataKey(k), now) /\ NcLive(hcache, HashKey(k), now)

\* line 187-190: a verification of k is recorded less than checkThrottleMs ago
InWindow(k) ==
    hashCheckCache[k].has /\ now - hashCheckCache[k].timestamp < CheckPeriod

HStoreChange(k) ==
    /\ hstore[k] < MaxVer
    /\ hstore' = [hstore EXCEPT ![k] = @ + 1]
    /\ UNCHANGED <<notHash, now, hcache, hashCheckCache, hcall, hdigAt>>

\* a getWithHash that verifies every stored pair, whatever the last
\* verification time
HGetWithHash_NoThrottle(c, k) ==
    /\ hcall[c].pc = "idle"
    /\ hcache' = NcAfterGet(NcAfterGet(hcache, DataKey(k), now), HashKey(k), now)
    /\ hcall' = [hcall EXCEPT ![c] =
          IF PairLive(k)
          THEN [NoHCall EXCEPT !.pc = "verify", !.key = k, !.now = now,
                               !.cachedData = NcGet(hcache, DataKey(k), now),
                               !.cachedHash = NcGet(hcache, HashKey(k), now),
                               !.read = HashOf(hstore[k]), !.dig = 1]
          ELSE [NoHCall EXCEPT !.pc = "reload", !.key = k, !.why = "miss",
                               !.read = hstore[k], !.rel = 1]]
    /\ UNCHANGED <<notHash, now, hstore, hashCheckCache>>
    /\ hdigAt' = IF PairLive(k) THEN [hdigAt EXCEPT ![k] = now] ELSE hdigAt

\* getWithHash(key, getCurrentHash, reload) up to its first suspension,
\* lines 180-197 and 206: a stored pair verified inside the throttle window
\* is returned; a stored pair outside it calls getCurrentHash; a miss calls
\* reload()
HGetWithHash(c, k) ==
    /\ hcall[c].pc = "idle"
    /\ hcache' = NcAfterGet(NcAfterGet(hcache, DataKey(k), now), HashKey(k), now)
    /\ hcall' = [hcall EXCEPT ![c] =
          IF PairLive(k)
          THEN IF InWindow(k)
               THEN [NoHCall EXCEPT !.pc = "return", !.key = k, !.why = "throttled",
                                    !.cachedData = NcGet(hcache, DataKey(k), now)]
               ELSE [NoHCall EXCEPT !.pc = "verify", !.key = k, !.now = now,
                                    !.cachedData = NcGet(hcache, DataKey(k), now),
                                    !.cachedHash = NcGet(hcache, HashKey(k), now),
                                    !.read = HashOf(hstore[k]), !.dig = 1]
          ELSE [NoHCall EXCEPT !.pc = "reload", !.key = k, !.why = "miss",
                               !.read = hstore[k], !.rel = 1]]
    /\ UNCHANGED <<notHash, now, hstore, hashCheckCache>>
    /\ hdigAt' = IF PairLive(k) /\ ~InWindow(k) THEN [hdigAt EXCEPT ![k] = now] ELSE hdigAt

\* a verification that records its time only when the digests are equal
HVerifyOk_StampOnEqual(c) ==
    /\ hcall[c].pc = "verify"
    /\ hashCheckCache' = IF hcall[c].read = hcall[c].cachedHash
          THEN [hashCheckCache EXCEPT ![hcall[c].key] =
                   [has |-> TRUE, hash |-> hcall[c].read, timestamp |-> hcall[c].now,
                    by |-> "equal"]]
          ELSE hashCheckCache
    /\ hcall' = [hcall EXCEPT ![c] =
          IF hcall[c].read = hcall[c].cachedHash
          THEN [@ EXCEPT !.pc = "return", !.why = "equal", !.read = Undefined]
          ELSE [@ EXCEPT !.pc = "reload", !.why = "differs", !.rel = 1,
                         !.read = hstore[hcall[c].key]]]
    /\ UNCHANGED <<notHash, now, hstore, hcache, hdigAt>>

\* a verification that, on a changed digest, forgets every verification
\* record
HVerifyOk_ClearsChecks(c) ==
    /\ hcall[c].pc = "verify"
    /\ hashCheckCache' = IF hcall[c].read = hcall[c].cachedHash
          THEN [hashCheckCache EXCEPT ![hcall[c].key] =
                   [has |-> TRUE, hash |-> hcall[c].read, timestamp |-> hcall[c].now,
                    by |-> "equal"]]
          ELSE [k \in FieldKeys |-> NoCheck]
    /\ hcall' = [hcall EXCEPT ![c] =
          IF hcall[c].read = hcall[c].cachedHash
          THEN [@ EXCEPT !.pc = "return", !.why = "equal", !.read = Undefined]
          ELSE [@ EXCEPT !.pc = "reload", !.why = "differs", !.rel = 1,
                         !.read = hstore[hcall[c].key]]]
    /\ UNCHANGED <<notHash, now, hstore, hcache, hdigAt>>

\* the awaited getCurrentHash of line 198 resolves, lines 199-206: the
\* verification is recorded with the time read at line 184; an equal digest
\* returns cachedData, a different one calls reload()
HVerifyOk(c) ==
    /\ hcall[c].pc = "verify"
    /\ hashCheckCache' = [hashCheckCache EXCEPT ![hcall[c].key] =
          [has |-> TRUE, hash |-> hcall[c].read, timestamp |-> hcall[c].now,
           by |-> IF hcall[c].read = hcall[c].cachedHash THEN "equal" ELSE "differs"]]
    /\ hcall' = [hcall EXCEPT ![c] =
          IF hcall[c].read = hcall[c].cachedHash
          THEN [@ EXCEPT !.pc = "return", !.why = "equal", !.read = Undefined]
          ELSE [@ EXCEPT !.pc = "reload", !.why = "differs", !.rel = 1,
                         !.read = hstore[hcall[c].key]]]
    /\ UNCHANGED <<notHash, now, hstore, hcache, hdigAt>>

\* an awaited getCurrentHash or reload() rejects: getWithHash has no catch,
\* the rejection reaches the caller and nothing more is written
HFail(c) ==
    /\ hcall[c].pc \in {"verify", "reload", "rehash"}
    /\ hcall' = [hcall EXCEPT ![c] = NoHCall]
    /\ UNCHANGED <<notHash, now, hstore, hcache, hashCheckCache, hdigAt>>

\* the awaited reload() of line 206 resolves: line 207 calls getCurrentHash
HReloadOk(c) ==
    /\ hcall[c].pc = "reload"
    /\ hcall' = [hcall EXCEPT ![c] =
          [@ EXCEPT !.pc = "rehash", !.newData = hcall[c].read, !.dig = @ + 1,
                    !.read = HashOf(hstore[hcall[c].key]),
                    !.cachedData = Undefined, !.cachedHash = Undefined]]
    /\ UNCHANGED <<notHash, now, hstore, hcache, hashCheckCache>>
    /\ hdigAt' = [hdigAt EXCEPT ![hcall[c].key] = now]

\* a getWithHash that returns the fresh value without storing the pair
HRehashOk_NoStore(c) ==
    /\ hcall[c].pc = "rehash"
    /\ hashCheckCache' = [hashCheckCache EXCEPT ![hcall[c].key] =
          [has |-> TRUE, hash |-> hcall[c].read, timestamp |-> now, by |-> "fresh"]]
    /\ hcall' = [hcall EXCEPT ![c] = [@ EXCEPT !.pc = "return", !.read = Undefined]]
    /\ UNCHANGED <<notHash, now, hstore, hcache, hdigAt>>

\* the awaited getCurrentHash of line 207 resolves, lines 208-217:
\* setWithHash (170-173) stores both entries with the standard ttl, the
\* verification is recorded at the current time, newData is returned
HRehashOk(c) ==
    /\ hcall[c].pc = "rehash"
    /\ hcache' = NcSet(NcSet(hcache, DataKey(hcall[c].key), hcall[c].newData, TtlSeconds, now),
                       HashKey(hcall[c].key), hcall[c].read, TtlSeconds, now)
    /\ hashCheckCache' = [hashCheckCache EXCEPT ![hcall[c].key] =
          [has |-> TRUE, hash |-> hcall[c].read, timestamp |-> now, by |-> "fresh"]]
    /\ hcall' = [hcall EXCEPT ![c] = [@ EXCEPT !.pc = "return", !.read = Undefined]]
    /\ UNCHANGED <<notHash, now, hstore, hdigAt>>

\* what the completed getWithHash of c hands to its caller
HAnswer(c) == IF hcall[c].why \in {"throttled", "equal"} THEN hcall[c].cachedData
              ELSE hcall[c].newData

\* the caller's continuation receives the returned value
HReturn(c) ==
    /\ hcall[c].pc = "return"
    /\ hcall' = [hcall EXCEPT ![c] = NoHCall]
    /\ UNCHANGED <<notHash, now, hstore, hcache, hashCheckCache, hdigAt>>

\* node-cache's periodic sweep
HSweep ==
    /\ NcSweep(hcache, now) # hcache
    /\ hcache' = NcSweep(hcache, now)
    /\ UNCHANGED <<notHash, now, hstore, hashCheckCache, hcall, hdigAt>>

HashTick == Tick(MaxTime) /\ UNCHANGED <<notHash, hashVars>>

HashNext ==
    \/ HashTick
    \/ \E k \in HKeys : HStoreChange(k)
    \/ \E c \in Callers, k \in HKeys : HGetWithHash(c, k)
    \/ \E c \in Callers : HVerifyOk(c)
    \/ \E c \in Callers : HFail(c)
    \/ \E c \in Callers : HReloadOk(c)
    \/ \E c \in Callers : HRehashOk(c)
    \/ \E c \in Callers : HReturn(c)
    \/ HSweep

\* ======== collection loads (agent-manager.ts 257-288, agent-config.ts 399-427)
AgentIds == 1..NumAgents

\* the rows of the set S of agents as findMany returns them
RECURSIVE RowsOf(_)
RowsOf(S) ==
    IF S = {} THEN <<>>
    ELSE LET first == CHOOSE i \in S : \A j \in S : i <= j
         IN <<first>> \o RowsOf(S \ {first})

Loaders == {"loadData", "getAgentsFromDb"}

LoadIdle ==
    /\ lwho = "none"
    /\ lpc = "idle"
    /\ lrows = <<>>
    /\ lidx = 0
    /\ lout = {}
    /\ lfailed = {}

\* loadData() of agentManager (257-269) or getAgentsFromDb() (399-410) is
\* called: prisma.agent.findMany is awaited
LStart(who) ==
    /\ lpc = "idle"
    /\ lwho' = who
    /\ lpc' = "query"
    /\ lrows' = <<>>
    /\ lidx' = 0
    /\ lout' = {}
    /\ lfailed' = {}
    /\ UNCHANGED notLoad

\* the loop has handled row lidx: go to the next row or return the result
LAdvance ==
    IF lidx < Len(lrows)
    THEN lidx' = lidx + 1 /\ lpc' = "build"
    ELSE lidx' = lidx /\ lpc' = "resolved"

\* findMany resolves with the rows of S; the loop starts on the first row
LQueryOk(S) ==
    /\ lpc = "query"
    /\ lrows' = RowsOf(S)
    /\ IF S = {} THEN lidx' = 0 /\ lpc' = "resolved"
                 ELSE lidx' = 1 /\ lpc' = "build"
    /\ UNCHANGED <<notLoad, lwho, lout, lfailed>>

\* findMany rejects: loadData rejects (no catch around it); getAgentsFromDb
\* catches, logs and returns [] (423-426)
LQueryFail ==
    /\ lpc = "query"
    /\ lpc' = IF lwho = "loadData" THEN "rejected" ELSE "resolved"
    /\ UNCHANGED <<notLoad, lwho, lrows, lidx, lout, lfailed>>

\* createAgentInstance resolves (agent-manager.ts 275-277) or
\* buildAgentConfig returns a config (agent-config.ts 415-418): the entry is
\* added
LBuildOk ==
    /\ lpc = "build"
    /\ lout' = lout \cup {lrows[lidx]}
    /\ LAdvance
    /\ UNCHANGED <<notLoad, lwho, lrows, lfailed>>

\* a load that gives up on the first entry that cannot be built
LBuildFail_Aborts ==
    /\ lpc = "build"
    /\ lfailed' = lfailed \cup {lrows[lidx]}
    /\ lpc' = "rejected"
    /\ UNCHANGED <<notLoad, lwho, lrows, lidx, lout>>

\* createAgentInstance rejects and the catch of 278-283 logs it, or
\* buildAgentConfig catches its own failure and returns null (272-277),
\* which line 416 skips: the loop goes on
LBuildFail ==
    /\ lpc = "build"
    /\ lfailed' = lfailed \cup {lrows[lidx]}
    /\ LAdvance
    /\ UNCHANGED <<notLoad, lwho, lrows, lout>>

\* the caller receives the result
LSettle ==
    /\ lpc \in {"resolved", "rejected"}
    /\ lpc' = "idle"
    /\ lwho' = "none"
    /\ lrows' = <<>>
    /\ lidx' = 0
    /\ lout' = {}
    /\ lfailed' = {}
    /\ UNCHANGED notLoad

LoadNext ==
    \/ \E who \in Loaders : LStart(who)
    \/ \E S \in SUBSET AgentIds : LQueryOk(S)
    \/ LQueryFail
    \/ LBuildOk
    \/ LBuildFail
    \/ LSettle

\* ======== construction of change-gated caches (change-aware-cache.ts 27-88,
\* ======== mcp-config.ts 15-23, agent-config.ts 574-595)
DefaultCheckInterval == 10
DefaultDataCacheTtl == 3600

\* the string defaults of the `??` of mcp-config.ts 18-19, agent-config.ts 577-578
DefaultCacheTtlEnv == <<"3", "0", "0">>
DefaultDataTtlEnv == <<"8", "6", "4", "0", "0">>

\* an environment variable: unset, or set to a string
Unset == [set |-> FALSE, s |-> <<>>]
Str(s) == [set |-> TRUE, s |-> s]

\* a JavaScript number option: left out (undefined), NaN, or the number n
NoOption == [given |-> FALSE, nan |-> FALSE, n |-> 0]
NaN == [given |-> TRUE, nan |-> TRUE, n |-> 0]
Num(n) == [given |-> TRUE, nan |-> FALSE, n |-> n]

\* a < b on numbers: false when either is NaN
Less(a, b) == ~a.nan /\ ~b.nan /\ a.n < b.n

EnvNames == {"MCP_CACHE_TTL", "MCP_DATA_TTL", "SUB_AGENT_CACHE_TTL", "SUB_AGENT_DATA_TTL"}

\* values of an environment variable: unset, "", "5", "20", "9s", "x"
EnvValues == {Unset, Str(<<>>), Str(<<"5">>), Str(<<"2", "0">>), Str(<<"9", "s">>),
              Str(<<"x">>)}

\* option values handed to the constructor: left out, or a number of seconds
OptValues == {NoOption, Num(5), Num(DefaultCheckInterval), Num(DefaultDataCacheTtl)}

CacheNames == {"McpServersCache", "AgentCache", "ChangeAwareCache"}

DigitOf == ("0" :> 0) @@ ("1" :> 1) @@ ("2" :> 2) @@ ("3" :> 3) @@ ("4" :> 4) @@
           ("5" :> 5) @@ ("6" :> 6) @@ ("7" :> 7) @@ ("8" :> 8) @@ ("9" :> 9)

\* the value of the longest prefix of decimal digits of s, read after acc
RECURSIVE DigitsValue(_, _)
DigitsValue(s, acc) ==
    IF s = <<>> \/ Head(s) \notin DOMAIN DigitOf THEN acc
    ELSE DigitsValue(Tail(s), 10 * acc + DigitOf[Head(s)])

\* parseInt(s, 10): an optional sign, then the leading digits; NaN when
\* there is no digit
ParseInt(s) ==
    LET neg == s # <<>> /\ Head(s) = "-"
        body == IF s # <<>> /\ Head(s) \in {"-", "+"} THEN Tail(s) ELSE s
    IN IF body = <<>> \/ Head(body) \notin DOMAIN DigitOf THEN NaN
       ELSE IF neg THEN Num(0 - DigitsValue(body, 0)) ELSE Num(DigitsValue(body, 0))

\* process.env.NAME ?? def
EnvOr(name, def) == IF env[name].set THEN env[name].s ELSE def

\* the destructuring defaults of lines 31-37: a left-out option takes the
\* default, any other value is taken as given
Constructed(checkInterval, dataCacheTtl) ==
    [made |-> TRUE,
     checkInterval |-> IF checkInterval.given THEN checkInterval
                       ELSE Num(DefaultCheckInterval),
     dataCacheTtl |-> IF dataCacheTtl.given THEN dataCacheTtl
                      ELSE Num(DefaultDataCacheTtl)]

NotBuilt == [made |-> FALSE, checkInterval |-> NoOption, dataCacheTtl |-> NoOption]

CfgIdle ==
    /\ env = [n \in EnvNames |-> Unset]
    /\ built = [n \in CacheNames |-> NotBuilt]

\* the module mcp-config.ts is loaded: lines 15-23
CLoadMcpConfig ==
    /\ ~built["McpServersCache"].made
    /\ built' = [built EXCEPT !["McpServersCache"] =
          Constructed(ParseInt(EnvOr("MCP_CACHE_TTL", DefaultCacheTtlEnv)),
                      ParseInt(EnvOr("MCP_DATA_TTL", DefaultDataTtlEnv)))]
    /\ UNCHANGED <<notCfg, env>>

\* the module agent-config.ts is loaded: lines 574-595
CLoadAgentConfig ==
    /\ ~built["AgentCache"].made
    /\ built' = [built EXCEPT !["AgentCache"] =
          Constructed(ParseInt(EnvOr("SUB_AGENT_CACHE_TTL", DefaultCacheTtlEnv)),
                      ParseInt(EnvOr("SUB_AGENT_DATA_TTL", DefaultDataTtlEnv)))]
    /\ UNCHANGED <<notCfg, env>>

\* createChangeAwareCache(fetcher, options), lines 170-173 and 27-88
CCreate(checkInterval, dataCacheTtl) ==
    /\ built' = [built EXCEPT !["ChangeAwareCache"] =
          Constructed(checkInterval, dataCacheTtl)]
    /\ UNCHANGED <<notCfg, env>>

CfgNext ==
    \/ CLoadMcpConfig
    \/ CLoadAgentConfig
    \/ \E ci \in OptValues, dt \in OptValues : CCreate(ci, dt)

\* ======== change detectors (mcp-change-detector.ts 17-59, agent-config.ts
\* ======== 511-545, index.ts 84-144)
\* `let lastKnownMcpState = null`: no state recorded (versions start at 1)
NoState == 0

Detectors == {"hasMcpServersChanged", "hasAgentListChanged", "hasAgentConfigChanged"}

NoDCall == [pc |-> "idle", det |-> "none", read |-> NoState, ret |-> FALSE, why |-> "none"]

DetIdle ==
    /\ dstore = [d \in Detectors |-> 1]
    /\ lastKnown = [d \in Detectors |-> NoState]
    /\ dcall = [c \in Callers |-> NoDCall]
    /\ dprev = [d \in Detectors |-> NoState]

\* a detector whose comparison reports a change every time
HasChanged_Always(last, cur) == TRUE

\* the detector's answer for the state cur it fetched when last is recorded:
\* changed when nothing is recorded (first call) or when the two differ
HasChanged(last, cur) == last = NoState \/ cur # last

\* a detector that records nothing on its first call
Recorded_NotOnFirstCall(last, cur) ==
    IF last # NoState /\ HasChanged(last, cur) THEN cur ELSE last

\* what is recorded after the call: the fetched state when it answered
\* changed, the old record otherwise
Recorded(last, cur) == IF HasChanged(last, cur) THEN cur ELSE last

\* the rows a detector reads are modified
DStoreChange(d) ==
    /\ dstore[d] < MaxVer
    /\ dstore' = [dstore EXCEPT ![d] = @ + 1]
    /\ UNCHANGED <<notDet, lastKnown, dcall, dprev>>

\* the detector d is called: it awaits the queries of its change info
DCall(c, d) ==
    /\ dcall[c].pc = "idle"
    /\ dcall' = [dcall EXCEPT ![c] = [NoDCall EXCEPT !.pc = "info", !.det = d,
                                                     !.read = dstore[d]]]
    /\ UNCHANGED <<notDet, dstore, lastKnown, dprev>>

\* the change info resolves: first-call branch or comparison, and the record
DInfoOk(c) ==
    LET d == dcall[c].det
        changed == HasChanged(lastKnown[d], dcall[c].read)
    IN /\ dcall[c].pc = "info"
       /\ lastKnown' = [lastKnown EXCEPT ![d] = Recorded(@, dcall[c].read)]
       /\ dcall' = [dcall EXCEPT ![c] = [@ EXCEPT !.pc = "returned", !.ret = changed,
                                                  !.why = "compared"]]
       /\ dprev' = [dprev EXCEPT ![d] = IF changed THEN dcall[c].read ELSE NoState]
       /\ UNCHANGED <<notDet, dstore>>

\* a detector that, when a query fails, takes the change as seen
DInfoFail_RecordsState(c) ==
    /\ dcall[c].pc = "info"
    /\ lastKnown' = [lastKnown EXCEPT ![dcall[c].det] = dstore[dcall[c].det]]
    /\ dcall' = [dcall EXCEPT ![c] = [@ EXCEPT !.pc = "returned", !.ret = FALSE,
                                               !.why = "failed"]]
    /\ dprev' = [dprev EXCEPT ![dcall[c].det] = NoState]
    /\ UNCHANGED <<notDet, dstore>>

\* a query of the change info rejects: the catch logs and returns false
DInfoFail(c) ==
    /\ dcall[c].pc = "info"
    /\ dcall' = [dcall EXCEPT ![c] = [@ EXCEPT !.pc = "returned", !.ret = FALSE,
                                               !.why = "failed"]]
    /\ dprev' = [dprev EXCEPT ![dcall[c].det] = NoState]
    /\ UNCHANGED <<notDet, dstore, lastKnown>>

\* hasAgentConfigChanged finds no agent of that name: returns false
\* (index.ts 91-94)
DNotFound(c) ==
    /\ dcall[c].pc = "info"
    /\ dcall[c].det = "hasAgentConfigChanged"
    /\ dcall' = [dcall EXCEPT ![c] = [@ EXCEPT !.pc = "returned", !.ret = FALSE,
                                               !.why = "notFound"]]
    /\ dprev' = [dprev EXCEPT ![dcall[c].det] = NoState]
    /\ UNCHANGED <<notDet, dstore, lastKnown>>

\* the caller receives the answer
DSettle(c) ==
    /\ dcall[c].pc = "returned"
    /\ dcall' = [dcall EXCEPT ![c] = NoDCall]
    /\ UNCHANGED <<notDet, dstore, lastKnown, dprev>>

\* the detectors share no state: a behaviour calls one of them, from two
\* callers
DCallOne(c, d) ==
    /\ \A e \in Detectors \ {d} : \A b \in Callers : dcall[b].det # e
    /\ \A e \in Detectors \ {d} : lastKnown[e] = NoState
    /\ DCall(c, d)

DetNext ==
    \/ \E d \in Detectors : DStoreChange(d)
    \/ \E c \in Callers, d \in Detectors : DCallOne(c, d)
    \/ \E c \in Callers : DInfoOk(c)
    \/ \E c \in Callers : DInfoFail(c)
    \/ \E c \in Callers : DNotFound(c)
    \/ \E c \in Callers : DSettle(c)

\* ======== agent manager over agentCache (agent-config.ts 572-760)
ListDetector == "hasAgentListChanged"

AgentNames == {"a", "b", "c"}

\* the names of the agent rows in store state v: "b" is replaced by "c" and
\* back
NamesAt(v) == IF v % 2 = 1 THEN {"a", "b"} ELSE {"a", "c"}

AgentOps == {"initialize", "getAgent", "refresh", "listAgents"}

\* the sets of agents whose build can fail in one step: none or one
FailSets == {{}} \cup {{n} : n \in AgentNames}

NoFlag == [has |-> FALSE, v |-> 0, t |-> 0]
NoList == [has |-> FALSE, v |-> {}, t |-> 0]

\* node-cache entry e is stored and unexpired; an entry set now with ttl
ALive(e) == e.has /\ ~(e.t # 0 /\ e.t < now)
APut(v, ttl) == [has |-> TRUE, v |-> v, t |-> now + ttl]

\* op, arg: the call; res: what it returned; got, configs: the list
\* agentCache.get handed to it; failed: the instances that failed to build
\* in its loadAgents; det: changes detected during the call; fet:
\* getAgentsFromDb calls started during the call; seen: names fetched since
\* the last detected change; init0: isInitialized when the call began
NoACall == [op |-> "none", arg |-> "-", res |-> "none", got |-> FALSE, configs |-> {},
            failed |-> {}, det |-> 0, fet |-> 0, seen |-> {}, init0 |-> FALSE]

CompIdle ==
    /\ agents = {}
    /\ managerInitialized = FALSE
    /\ aprobe = NoFlag
    /\ adata = NoList
    /\ apc = "idle"
    /\ aread = NoState
    /\ adepth = 0
    /\ acall = NoACall
    /\ asince = Undefined

\* the state of the manager as one record, and its assignment
Machine ==
    [agents |-> agents, init |-> managerInitialized, probe |-> aprobe, data |-> adata,
     known |-> lastKnown[ListDetector], pc |-> apc, read |-> aread, depth |-> adepth,
     call |-> acall]

Becomes(m) ==
    /\ agents' = m.agents
    /\ managerInitialized' = m.init
    /\ aprobe' = m.probe
    /\ adata' = m.data
    /\ lastKnown' = [lastKnown EXCEPT ![ListDetector] = m.known]
    /\ apc' = m.pc
    /\ aread' = m.read
    /\ adepth' = m.depth
    /\ acall' = m.call
    /\ asince' = Undefined
    /\ UNCHANGED <<notComp, now, dstore, dcall, dprev>>

\* a refresh that keeps the registry until the new list is loaded
ClearRegistry_Keeps(reg) == reg

\* this.agents.clear(), line 711
ClearRegistry(reg) == {}

\* an invalidate that leaves the data tier alone
InvalidateData_Keeps(e) == e

\* dataCache.clear(key) of invalidate(), change-aware-cache.ts 105
InvalidateData(e) == NoList

\* loadAgents(configs), 735-748: the registry is cleared and every config
\* whose createAgentInstance does not throw is registered
LoadAgents(configs, fails) == configs \ fails

\* a lookup that raises for a name that is not in the list
Lookup_ThrowsOnMissing(n, configs, fails) ==
    IF n \notin configs \/ n \in fails THEN "throw" ELSE "agent"

\* getAgent after the awaited list, 668-678: no config of that name gives
\* null; else the instance is created, which may throw
Lookup(n, configs, fails) ==
    IF n \notin configs THEN "null" ELSE IF n \in fails THEN "throw" ELSE "agent"

\* the consumer's call continues with the list agentCache.get returned:
\* initialize 646-649, getAgent 668-678, listAgents 705, refresh 715-716
TopContinue(m, configs, fails) ==
    LET m1 == [m EXCEPT !.call.got = TRUE, !.call.configs = configs, !.pc = "returned",
                        !.read = NoState]
    IN CASE m.call.op = "initialize" ->
              [m1 EXCEPT !.agents = LoadAgents(configs, fails), !.init = TRUE,
                         !.call.failed = fails \cap configs, !.call.res = "void"]
         [] m.call.op = "refresh" ->
              [m1 EXCEPT !.agents = LoadAgents(configs, fails),
                         !.call.failed = fails \cap configs, !.call.res = "void"]
         [] m.call.op = "getAgent" ->
              IF Lookup(m.call.arg, configs, fails) = "agent"
              THEN [m1 EXCEPT !.agents = @ \cup {m.call.arg}, !.call.res = "agent"]
              ELSE IF Lookup(m.call.arg, configs, fails) = "null"
              THEN [m1 EXCEPT !.call.res = "null"]
              ELSE [m1 EXCEPT !.pc = "rejected"]
         [] OTHER -> [m1 EXCEPT !.call.res = "list"]

\* agentCache.get returns configs to its caller. A call made by the
\* refresh callback: refresh loads the agents and returns (715-719), the
\* detector returns true (591), the probe loader clears the data entry and
\* stores true (change-aware-cache.ts 70-80), and the outer get misses the
\* data tier and calls getAgentsFromDb (98, cache-manager.ts 63-81).
\* Otherwise the consumer's call continues.
Deliver(m, configs, fails) ==
    IF m.depth > 0
    THEN [m EXCEPT !.agents = LoadAgents(configs, fails), !.depth = @ - 1,
                   !.data = NoList, !.probe = APut(1, CheckInterval),
                   !.pc = "fetch", !.read = dstore[ListDetector], !.call.fet = @ + 1]
    ELSE TopContinue(m, configs, fails)

\* dataCache.get(key), change-aware-cache.ts 98
DataGet(m, fails) ==
    IF ALive(m.data) THEN Deliver(m, m.data.v, fails)
    ELSE [m EXCEPT !.data = NoList, !.pc = "fetch", !.read = dstore[ListDetector],
                   !.call.fet = @ + 1]

\* agentCache.get('agents'), change-aware-cache.ts 93-98, up to its first
\* suspension: a live probe entry goes on to the data tier, else the probe
\* loader calls the change detector
CacheGet(m, fails) ==
    IF ALive(m.probe) THEN DataGet(m, fails)
    ELSE [m EXCEPT !.probe = NoFlag, !.pc = "detect", !.read = dstore[ListDetector]]

\* the probe loader after the detector answered, change-aware-cache.ts 68-80
\* and cache-manager.ts 82, then the data read of line 98
AfterDetector(m, changed, fails) ==
    DataGet([m EXCEPT !.data = IF changed THEN NoList ELSE @,
                      !.probe = APut(IF changed THEN 1 ELSE 0, CheckInterval)], fails)

\* refresh(), 708-717, up to its await: registry cleared, both tiers of key
\* 'agents' invalidated
Refreshed(m) ==
    [m EXCEPT !.agents = ClearRegistry(@), !.data = InvalidateData(@), !.probe = NoFlag]

\* the changeDetector of agentCache after hasAgentListChanged answered,
\* 579-592: on a change the registered callback runs refresh(), which on an
\* initialized manager awaits a nested agentCache.get
Detected(m, changed, fails) ==
    IF ~changed THEN AfterDetector(m, FALSE, fails)
    ELSE LET m1 == [Refreshed(m) EXCEPT !.call.det = @ + 1, !.call.seen = {}]
         IN IF m.init THEN CacheGet([m1 EXCEPT !.depth = @ + 1], fails)
            ELSE AfterDetector(m1, TRUE, fails)

\* the consumer calls initialize (637-654), getAgent (662-666), refresh
\* (708-717) or listAgents (704-706)
ACall(op, n, fails) ==
    LET m0 == [Machine EXCEPT !.call = [NoACall EXCEPT !.op = op, !.arg = n,
                                                       !.init0 = managerInitialized]]
        done == [m0 EXCEPT !.pc = "returned"]
    IN /\ apc \in {"idle", "returned", "rejected"}
       /\ Becomes(CASE op = "initialize" ->
                         IF managerInitialized THEN [done EXCEPT !.call.res = "void"]
                         ELSE CacheGet(m0, fails)
                    [] op = "getAgent" ->
                         IF n \in agents THEN [done EXCEPT !.call.res = "agent"]
                         ELSE CacheGet(m0, fails)
                    [] op = "refresh" ->
                         IF managerInitialized THEN CacheGet(Refreshed(m0), fails)
                         ELSE [Refreshed(done) EXCEPT !.call.res = "void"]
                    [] OTHER -> CacheGet(m0, fails))

\* the awaited hasAgentListChanged resolves with its comparison
ADetectOk(fails) ==
    /\ apc = "detect"
    /\ Becomes(Detected([Machine EXCEPT !.known = Recorded(@, aread)],
                        HasChanged(lastKnown[ListDetector], aread), fails))

\* a query of hasAgentListChanged rejects: it returns false (541-544)
ADetectFail(fails) ==
    /\ apc = "detect"
    /\ Becomes(Detected(Machine, FALSE, fails))

\* the awaited getAgentsFromDb resolves with the configs that could be
\* built, or with [] when its query failed (399-427): the list is stored in
\* the data tier and returned
AFetchOk(configs, fails) ==
    /\ apc = "fetch"
    /\ configs \subseteq NamesAt(aread)
    /\ Becomes(Deliver([Machine EXCEPT !.data = APut(configs, DataCacheTtl),
                                       !.call.seen = @ \cup configs],
                       configs, fails))

AStoreChange ==
    /\ dstore[ListDetector] < MaxVer
    /\ dstore' = [dstore EXCEPT ![ListDetector] = @ + 1]
    /\ asince' = IF apc \in {"idle", "returned", "rejected"} THEN now ELSE Undefined
    /\ UNCHANGED <<notComp, now, agents, managerInitialized, aprobe, adata, apc, aread,
                   adepth, acall, lastKnown, dcall, dprev>>

CompTick == Tick(CheckInterval + 1) /\ UNCHANGED <<notComp, compVars, detVars>>

CompNext ==
    \/ CompTick
    \/ AStoreChange
    \/ \E n \in AgentNames, fails \in FailSets : ACall("getAgent", n, fails)
    \/ \E op \in AgentOps \ {"getAgent"}, fails \in FailSets : ACall(op, "-", fails)
    \/ \E fails \in FailSets : ADetectOk(fails)
    \/ \E fails \in FailSets : ADetectFail(fails)
    \/ \E configs \in SUBSET AgentNames, fails \in FailSets : AFetchOk(configs, fails)

\* ======== one agent of agentManager and its model resolver
\* ======== (agent-manager.ts 148-154, 205-308)
NoPair == [has |-> FALSE, v |-> Undefined, hash |-> 0, t |-> 0]

BindIdle ==
    /\ brow = [modelId |-> 1, description |-> 1]
    /\ bcoll = Absent
    /\ bready = FALSE
    /\ bhash = Null
    /\ bcheck = 0
    /\ bheld = Undefined
    /\ bmodel = NoPair
    /\ bverified = Undefined
    /\ bres = Undefined
    /\ bsince = Undefined

\* getChangeHash, 290-303: the digest of id:name:description of every row;
\* id and name are fixed here
ChangeHash(row) == Digest(row.description)

\* loadData, 257-288: the instance of each row captures the row it was
\* built from (createAgentInstance, 205-246); stored by reload() with stdTTL
LoadedAgent(row) == APut(row.modelId, TtlSeconds)

\* loadModel(modelId), 148-154: the model registered under modelId
LoadModel(modelId) == modelId

\* the model resolver's digest, line 223: createHash(agentData.modelId) of
\* the captured row
ModelHash(held) == HashOf(held)

\* the store binds the agent to another model; id, name, description stay
BStoreRebind ==
    /\ brow.modelId < MaxVer
    /\ brow' = [brow EXCEPT !.modelId = @ + 1]
    /\ bsince' = now
    /\ UNCHANGED <<notBind, now, bcoll, bready, bhash, bcheck, bheld, bmodel, bverified, bres>>

\* the store changes the agent's description
BStoreDescribe ==
    /\ brow.description < MaxVer
    /\ brow' = [brow EXCEPT !.description = @ + 1]
    /\ bsince' = Undefined
    /\ UNCHANGED <<notBind, now, bcoll, bready, bhash, bcheck, bheld, bmodel, bverified, bres>>

\* agentManager.initialize(), cache.ts 64-100
BInitialize ==
    /\ ~bready
    /\ bcoll' = LoadedAgent(brow)
    /\ bhash' = ChangeHash(brow)
    /\ bready' = TRUE
    /\ UNCHANGED <<notBind, now, brow, bcheck, bheld, bmodel, bverified, bres, bsince>>

\* agentManager.get(id) of an initialized manager, cache.ts 136-148 with
\* checkForChanges 102-130: outside the throttle window the digest is
\* compared with lastHash and a different one reloads the collection
BGet ==
    LET due == now - bcheck >= CheckPeriod
        differs == due /\ ChangeHash(brow) # bhash
        coll == IF differs THEN LoadedAgent(brow) ELSE bcoll
    IN /\ bready
       /\ bcheck' = IF due THEN now ELSE bcheck
       /\ bhash' = IF differs THEN ChangeHash(brow) ELSE bhash
       /\ bcoll' = IF ALive(coll) THEN coll ELSE Absent
       /\ bheld' = IF ALive(coll) THEN coll.v ELSE Undefined
       /\ UNCHANGED <<notBind, now, brow, bready, bmodel, bverified, bres, bsince>>

\* the model resolver of the held instance, agent-manager.ts 220-225:
\* getWithHash (cache.ts 175-218) with the digest and the loader of the
\* captured modelId
BResolveModel ==
    LET live == bmodel.has /\ ~(bmodel.t # 0 /\ bmodel.t < now)
        inWindow == bverified # Undefined /\ now - bverified < CheckPeriod
        same == ModelHash(bheld) = bmodel.hash
    IN /\ bheld # Undefined
       /\ IF live /\ inWindow
          THEN /\ bres' = bmodel.v
               /\ UNCHANGED <<bmodel, bverified>>
          ELSE IF live /\ same
          THEN /\ bres' = bmodel.v
               /\ bverified' = now
               /\ UNCHANGED bmodel
          ELSE /\ bres' = LoadModel(bheld)
               /\ bmodel' = [has |-> TRUE, v |-> LoadModel(bheld), hash |-> ModelHash(bheld),
                             t |-> now + TtlSeconds]
               /\ bverified' = now
       /\ UNCHANGED <<notBind, now, brow, bcoll, bready, bhash, bcheck, bheld, bsince>>

BindTick == Tick(CheckPeriod + MaxTime) /\ UNCHANGED <<notBind, bindVars>>

BindNext ==
    \/ BindTick
    \/ BStoreRebind
    \/ BStoreDescribe
    \/ BInitialize
    \/ BGet
    \/ BResolveModel

\* =========================================================== specifications
\* each specification runs one cache; the others stay as constructed
TtlInit ==
    /\ now = 0
    /\ TtlIdle
    /\ RelIdle
    /\ GatedIdle
    /\ HashIdle
    /\ LoadIdle
    /\ CfgIdle
    /\ DetIdle
    /\ CompIdle
    /\ BindIdle

TtlNext ==
    \/ TtlTick
    \/ \E k \in TtlKeys : TStoreChange(k)
    \/ \E c \in Callers, k \in TtlKeys : TGet(c, k)
    \/ \E c \in Callers : TLoaderOk(c)
    \/ \E c \in Callers : TLoaderFail(c)
    \/ \E k \in TtlKeys, v \in SetVals : TSet(k, v)
    \/ \E k \in TtlKeys, v \in SetVals, ttl \in SetTtls : TSetTtl(k, v, ttl)
    \/ \E k \in TtlKeys : TClear(k)
    \/ TClearAll
    \/ TSweep

SpecTtl == TtlInit /\ [][TtlNext]_vars

\* Date.now() is epoch time: more than one check period above the initial
\* lastCheckTime of 0
RelInit ==
    /\ now = CheckPeriod
    /\ RelIdle
    /\ TtlIdle
    /\ GatedIdle
    /\ HashIdle
    /\ LoadIdle
    /\ CfgIdle
    /\ DetIdle
    /\ CompIdle
    /\ BindIdle

\* one caller issuing its calls one after the other
RelNext == RelNextOf({"c1"}, RKeys, {"c1"})

SpecReload == RelInit /\ [][RelNext]_vars

\* two callers whose initialize()/getAll() calls overlap
RelConcNext == RelNextOf(Callers, {}, {})

SpecReloadConc == RelInit /\ [][RelConcNext]_vars

GatedInit ==
    /\ now = 0
    /\ GatedIdle
    /\ TtlIdle
    /\ RelIdle
    /\ HashIdle
    /\ LoadIdle
    /\ CfgIdle
    /\ DetIdle
    /\ CompIdle
    /\ BindIdle

\* one caller issuing its calls one after the other
GatedNext == GatedNextOf({"c1"}, {"x"})

SpecGated == GatedInit /\ [][GatedNext]_vars

\* one caller using two keys, for as long as one probe entry lives
GatedKeysTick == Tick(CheckInterval + 1) /\ UNCHANGED <<notGated, gatedVars>>

GatedKeysNext ==
    \/ GatedKeysTick
    \/ \E k \in GKeys : GStoreChange(k)
    \/ \E k \in GKeys : GGet("c1", k)
    \/ \E changed \in BOOLEAN : GDetectOk("c1", changed)
    \/ GDetectFail("c1")
    \/ GDataGet("c1")
    \/ GFetchOk("c1")
    \/ GFetchFail("c1")
    \/ \E k \in GKeys : GInvalidate("c1", k)
    \/ \E k \in GKeys : GForceRefresh("c1", k)
    \/ GSweep

SpecGatedKeys == GatedInit /\ [][GatedKeysNext]_vars

\* two callers whose get() and invalidate() calls on one key overlap, for
\* as long as one probe entry lives
GatedConcNext ==
    \/ GatedKeysTick
    \/ GStoreChange("x")
    \/ \E c \in Callers : GGet(c, "x")
    \/ \E c \in Callers, changed \in BOOLEAN : GDetectOk(c, changed)
    \/ \E c \in Callers : GDetectFail(c)
    \/ \E c \in Callers : GDataGet(c)
    \/ \E c \in Callers : GFetchOk(c)
    \/ \E c \in Callers : GFetchFail(c)
    \/ \E c \in Callers : GFetchEmpty(c)
    \/ \E c \in Callers : GInvalidate(c, "x")

SpecGatedConc == GatedInit /\ [][GatedConcNext]_vars

HashInit ==
    /\ now = 0
    /\ HashIdle
    /\ TtlIdle
    /\ RelIdle
    /\ GatedIdle
    /\ LoadIdle
    /\ CfgIdle
    /\ DetIdle
    /\ CompIdle
    /\ BindIdle

SpecHash == HashInit /\ [][HashNext]_vars

\* one caller resolving two fields of an agent one after the other, until
\* one verification window has passed (no entry expires in that time)
HashKeysTick == Tick(CheckPeriod + 1) /\ UNCHANGED <<notHash, hashVars>>

HashKeysNext ==
    \/ HashKeysTick
    \/ \E k \in FieldKeys : HStoreChange(k)
    \/ \E k \in FieldKeys : HGetWithHash("c1", k)
    \/ HVerifyOk("c1")
    \/ HFail("c1")
    \/ HReloadOk("c1")
    \/ HRehashOk("c1")
    \/ HReturn("c1")

SpecHashKeys == HashInit /\ [][HashKeysNext]_vars

LoadInit ==
    /\ now = 0
    /\ LoadIdle
    /\ TtlIdle
    /\ RelIdle
    /\ GatedIdle
    /\ HashIdle
    /\ CfgIdle
    /\ DetIdle
    /\ CompIdle
    /\ BindIdle

SpecLoad == LoadInit /\ [][LoadNext]_vars

\* the process starts with any environment
CfgInit ==
    /\ now = 0
    /\ env \in [EnvNames -> EnvValues]
    /\ built = [n \in CacheNames |-> NotBuilt]
    /\ TtlIdle
    /\ RelIdle
    /\ GatedIdle
    /\ HashIdle
    /\ LoadIdle
    /\ DetIdle
    /\ CompIdle
    /\ BindIdle

SpecCfg == CfgInit /\ [][CfgNext]_vars

DetInit ==
    /\ now = 0
    /\ DetIdle
    /\ TtlIdle
    /\ RelIdle
    /\ GatedIdle
    /\ HashIdle
    /\ LoadIdle
    /\ CfgIdle
    /\ CompIdle
    /\ BindIdle

SpecDet == DetInit /\ [][DetNext]_vars

CompInit ==
    /\ now = 0
    /\ CompIdle
    /\ TtlIdle
    /\ RelIdle
    /\ GatedIdle
    /\ HashIdle
    /\ LoadIdle
    /\ CfgIdle
    /\ DetIdle
    /\ BindIdle

\* one consumer issuing its calls one after the other
SpecComp == CompInit /\ [][CompNext]_vars

\* the consumer's calls when every instance builds, and the queries a call
\* awaits, which settle
CompSettle ==
    \/ ADetectOk({})
    \/ ADetectFail({})
    \/ \E configs \in SUBSET AgentNames : AFetchOk(configs, {})

CompFairNext ==
    \/ CompTick
    \/ AStoreChange
    \/ \E n \in AgentNames : ACall("getAgent", n, {})
    \/ \E op \in AgentOps \ {"getAgent"} : ACall(op, "-", {})
    \/ CompSettle

SpecCompFair == CompInit /\ [][CompFairNext]_vars /\ WF_vars(CompSettle)

BindInit ==
    /\ now = CheckPeriod
    /\ CompIdle
    /\ TtlIdle
    /\ RelIdle
    /\ GatedIdle
    /\ HashIdle
    /\ LoadIdle
    /\ CfgIdle
    /\ DetIdle
    /\ BindIdle

\* one consumer of one agent: get(id), then the model resolver of the
\* instance it was given
SpecBind == BindInit /\ [][BindNext]_vars

\* ------------------------------------------------------------------------
\* C1: for every key with an unexpired entry, get(k) returns the stored
\* value at once, invokes the loader zero times and leaves the table alone.
C1_HitServesStoredValue ==
    [][\A c \in Callers, k \in TtlKeys :
        (TGet(c, k) /\ Unexpired(k)) =>
            /\ tpc'[c] = "returned"
            /\ tret'[c] = tstored[k].v
            /\ tloads'[c] = 0
            /\ tcache' = tcache]_vars

\* a get that began some time after the store, inside the TTL, has returned
C1_Witness ==
    \E c \in Callers :
        /\ tcase[c] = "unexpired"
        /\ tpc[c] = "returned"
        /\ tloads[c] = 0
        /\ tret[c] = tstored[tkey[c]].v
        /\ now > tstored[tkey[c]].at

\* C2: once the TTL of the last store of k has elapsed (no set in between),
\* the next get(k) invokes the loader exactly once and, when the loader
\* resolves, returns the loader's result and caches it.
C2_ExpiredEntryReloadsOnce ==
    /\ [](\A c \in Callers : tcase[c] = "elapsed" => tloads[c] = 1)
    /\ [][\A c \in Callers, k \in TtlKeys :
            /\ (TGet(c, k) /\ Elapsed(k)) =>
                    (tpc'[c] = "fetching" /\ tloads'[c] = 1 /\ tsnap'[c] = tstore[k])
            /\ (TLoaderOk(c) /\ tkey[c] = k) =>
                    /\ tpc'[c] = "returned"
                    /\ tret'[c] = tsnap[c]
                    /\ tloads'[c] = 1
                    /\ NcGet(tcache', k, now) = tsnap[c]]_vars

\* a get that found the TTL elapsed has reloaded and returned a store value
C2_Witness ==
    \E c \in Callers :
        /\ tcase[c] = "elapsed"
        /\ tpc[c] = "returned"
        /\ tloads[c] = 1
        /\ tret[c] = tstore[tkey[c]]
        /\ tstored[tkey[c]].at > Ttl

\* C3: a loader failure on a miss is raised to the caller of get(k) and
\* stores nothing: the table is unchanged by the failure, k has no entry
\* afterwards (unless another call stored one), and a repeated get(k) goes
\* to the loader again.
C3_LoaderFailureNotCached ==
    /\ [](\A c \in Callers : (tpc[c] = "raised" /\ tclean[c]) => ~tcache[tkey[c]].has)
    /\ [][\A c \in Callers, k \in TtlKeys :
            /\ TLoaderFail(c) => (tpc'[c] = "raised" /\ tcache' = tcache)
            /\ (TGet(c, k) /\ tpc[c] = "raised" /\ tkey[c] = k /\ tclean[c]) =>
                    (tpc'[c] = "fetching" /\ tloads'[c] = 1)]_vars

\* a get that found an expired entry has failed with nothing stored since
C3_Witness ==
    \E c \in Callers :
        /\ tpc[c] = "raised"
        /\ tclean[c]
        /\ tcase[c] = "elapsed"
        /\ ~tcache[tkey[c]].has

\* ------------------------------------------------------------------------
\* the part of collection m that a get(key) or getAll() call of c answers
Shaped(c, m) == IF rop[c].op = "get" THEN [NoAnswer EXCEPT ![rop[c].key] = m[rop[c].key]] ELSE m

\* C4: a get(key) or getAll() issued less than checkPeriod after the most
\* recent change check calls neither getChangeHash nor loadData (it goes
\* straight to the read, leaving digest, check time and table alone) and
\* answers from the in-memory collection.
C4_ThrottledCallServesMemory ==
    /\ [](\A c \in Callers : rpath[c].tag = "throttled" => rpc[c] = "read")
    /\ [][\A c \in Callers :
            /\ \A k \in RKeys, op \in {"get", "getAll"} :
                   (RCall(c, op, k) /\ rchk # 0 /\ now - rchk < CheckPeriod) =>
                       /\ rpc'[c] = "read"
                       /\ rpath'[c].tag = "throttled"
                       /\ UNCHANGED <<rcache, lastHash, lastCheckTime>>
            /\ (RRead(c) /\ rpath[c].tag = "throttled") =>
                   /\ Answer(c) = Shaped(c, [k \in RKeys |-> InMemory(k)])
                   /\ UNCHANGED <<lastHash, lastCheckTime>>]_vars

\* a throttled get("b") is about to answer the loaded item, one time unit
\* after the check that loaded it
C4_Witness ==
    \E c \in Callers :
        /\ rpc[c] = "read"
        /\ rpath[c].tag = "throttled"
        /\ rop[c] = [op |-> "get", key |-> "b"]
        /\ now > rchk
        /\ Answer(c)["b"] = ItemOf(rswap.ver, "b")

\* C5: when the change check of get/getAll finds a digest other than the
\* last stored one, loadData is called and the whole collection is replaced
\* by the fresh load before the call answers, so the same call answers the
\* new content; when the digest is equal loadData is not called and the
\* collection is unchanged.
C5_ChangedDigestReloadsWholeCollection ==
    [][\A c \in Callers :
        /\ (RCheckDigestOk(c) /\ Digest(rval[c]) # lastHash) => rpc'[c] = "load"
        /\ (RCheckDigestOk(c) /\ Digest(rval[c]) = lastHash) =>
               (rpc'[c] = "read" /\ UNCHANGED <<rcache, lastHash>>)
        /\ RLoadOk(c) => LiveView(rcache', now) = Collection(rval[c])
        /\ (RRead(c) /\ rpath[c].tag = "reloaded" /\ rswap.by = c
                /\ now - rswap.at <= TtlSeconds) =>
               Answer(c) = Shaped(c, Collection(rpath[c].ver))]_vars

\* the get("b") whose check found the digest of {a:2, b:3} is about to
\* answer 3
C5_Witness ==
    \E c \in Callers :
        /\ rpc[c] = "read"
        /\ rpath[c] = [tag |-> "reloaded", ver |-> 2]
        /\ rop[c] = [op |-> "get", key |-> "b"]
        /\ lastHash = Digest(2)
        /\ Answer(c)["b"] = 3

\* C6: under any interleaving of readers with a reload in progress, the
\* table always holds the collection of one load as a whole (or nothing,
\* before the first load and after its ttlSeconds), and every getAll()
\* answers exactly that collection: never a mixture of two loads, never a
\* part of one.
C6_GetAllSeesOneWholeCollection ==
    /\ [](LiveView(rcache, now) = [k \in RKeys |-> InMemory(k)])
    /\ [](\E v \in 1..MaxVer : LiveView(rcache, now) \in {NoAnswer, Collection(v)})
    /\ [][\A c \in Callers :
            (RRead(c) /\ rop[c].op = "getAll") =>
                Answer(c) = [k \in RKeys |-> InMemory(k)]]_vars

\* a getAll() is about to answer {a:2, b:3}, read while the reload of
\* another caller that swapped it in still awaits its digest
C6_Witness ==
    \E c, d \in Callers :
        /\ c # d
        /\ rpc[d] = "relDigest"
        /\ rswap.by = d
        /\ rswap.ver = 2
        /\ rpc[c] = "read"
        /\ rop[c].op = "getAll"
        /\ Answer(c) = Collection(2)

\* ------------------------------------------------------------------ C7
\* the probe of key k that reported a change was made within the last
\* checkInterval and the get() that made it has returned the data
Fresh(k) == gfresh[k].ok /\ now <= gfresh[k].at + CheckInterval

\* C7: when the change detector reports a change for k during the probe of
\* a get(k), the data entry of k is evicted whether or not it had expired,
\* the data read of that get(k) calls the data fetcher, and the call ends
\* having called it exactly once; a later get(k) of the same caller made
\* while that probe result is still within checkInterval calls neither the
\* detector nor the data fetcher and returns the stored data.
C7_ChangeRefetchesOnceThenQuiet ==
    [][\A c \in Callers :
        /\ GDetectOk(c, TRUE) =>
               (gdata'[gkey[c]] = Absent /\ gpc'[c] = "afterProbe" /\ gcnt'[c].fet = 0)
        /\ (GDataGet(c) /\ gchg[c] \in {"changed", "evicted"}) =>
               (gpc'[c] = "fetching" /\ gcnt'[c] = [det |-> 1, fet |-> 1])
        /\ ((GFetchOk(c) \/ GFetchFail(c)) /\ gchg[c] \in {"changed", "evicted"}) =>
               (gcnt[c] = [det |-> 1, fet |-> 1] /\ gpc'[c] = "idle")
        /\ \A k \in GKeys : (GGet(c, k) /\ Fresh(k)) =>
               (gpc'[c] = "afterProbe" /\ gcnt'[c] = NoCount)
        /\ (GDataGet(c) /\ gchg[c] = "hit" /\ Fresh(gkey[c])) =>
               (gpc'[c] = "idle" /\ GAnswer(c) # Undefined /\ gcnt[c] = NoCount)]_vars

\* a get("x") found the probe result still cached after an earlier get("x")
\* whose probe evicted an unexpired data entry and refetched it
C7_Witness ==
    /\ gpc["c1"] = "afterProbe"
    /\ gchg["c1"] = "hit"
    /\ gkey["c1"] = "x"
    /\ Fresh("x")
    /\ gfresh["x"].evicted
    /\ NcLive(gdata, "x", now)

\* ------------------------------------------------------------------ C8
\* the getWithHash(k) that c starts at this step is served from the cache:
\* no getCurrentHash, no reload(), the stored value is what it will return
Throttled(c, k) ==
    /\ hcall'[c].pc = "return"
    /\ hcall'[c].why = "throttled"
    /\ hcall'[c].dig = 0 /\ hcall'[c].rel = 0
    /\ hcall'[c].cachedData = NcGet(hcache, DataKey(k), now)
    /\ hcall'[c].cachedData # Undefined

\* C8 as stated: within the throttle window after a verification of key k,
\* getWithHash(k) never calls the digest function nor reload() and returns
\* the cached value.
C8_Original_ThrottledInsideWindow ==
    [][\A c \in Callers, k \in HKeys :
        (HGetWithHash(c, k) /\ InWindow(k)) => Throttled(c, k)]_vars

\* C8: within the throttle window after the recorded verification of key k,
\* and while the (value, digest) pair of k is still stored and unexpired,
\* getWithHash(k) never calls the digest function nor reload() and returns
\* the cached value; when the pair has expired inside the window the call
\* is a miss and calls reload().
C8_ThrottledWhilePairStored ==
    [][\A c \in Callers, k \in HKeys :
        /\ (HGetWithHash(c, k) /\ InWindow(k) /\ PairLive(k)) => Throttled(c, k)
        /\ (HGetWithHash(c, k) /\ InWindow(k) /\ ~PairLive(k)) =>
               (hcall'[c].pc = "reload" /\ hcall'[c].rel = 1)]_vars

\* a getWithHash("m") is about to return the cached value, served inside
\* the window of a recorded verification
C8_Witness ==
    /\ hcall["c1"].pc = "return"
    /\ hcall["c1"].why = "throttled"
    /\ InWindow("m")
    /\ hcall["c1"].cachedData = NcGet(hcache, DataKey("m"), now)

\* ------------------------------------------------------------------ C9
\* what C9 says of the verification itself: a stored pair outside the
\* window makes getWithHash call the digest function; when that call
\* resolves the verification is recorded whatever the comparison yields; an
\* equal digest returns the cached value without reload()
VerifiesAndRecords(c) ==
    /\ \A k \in HKeys : (HGetWithHash(c, k) /\ PairLive(k) /\ ~InWindow(k)) =>
           (hcall'[c].pc = "verify" /\ hcall'[c].dig = 1 /\ hcall'[c].rel = 0)
    /\ HVerifyOk(c) =>
           /\ hashCheckCache'[hcall[c].key].has
           /\ hashCheckCache'[hcall[c].key].timestamp = hcall[c].now
           /\ hashCheckCache'[hcall[c].key].hash = hcall[c].read
    /\ (HVerifyOk(c) /\ hcall[c].read = hcall[c].cachedHash) =>
           /\ hcall'[c].pc = "return"
           /\ hcall'[c].rel = 0
           /\ HAnswer(c)' = hcall[c].cachedData
           /\ UNCHANGED hcache

\* the recorded verification of k found the digest unchanged and is less
\* than the throttle old
InEqualWindow(k) == InWindow(k) /\ hashCheckCache[k].by = "equal"

\* C9 as stated: with a stored pair and the window elapsed, getWithHash
\* calls the digest function and records the verification time whatever
\* the comparison yields; an equal digest returns the cached value without
\* reload(); the next call inside the new window is throttled.
C9_Original_VerifyThenThrottled ==
    [][\A c \in Callers :
        /\ VerifiesAndRecords(c)
        /\ \A k \in HKeys : (HGetWithHash(c, k) /\ InEqualWindow(k)) => Throttled(c, k)]_vars

\* C9: with a stored pair and the window elapsed, getWithHash calls the
\* digest function and records the verification time (the time the call
\* began) whatever the comparison yields; an equal digest returns the
\* cached value without reload(); the next call inside the new window is
\* throttled as long as the pair, whose lifetime the verification does not
\* extend, has not expired.
C9_VerifyThenThrottledWhilePairStored ==
    [][\A c \in Callers :
        /\ VerifiesAndRecords(c)
        /\ \A k \in HKeys : (HGetWithHash(c, k) /\ InEqualWindow(k) /\ PairLive(k)) =>
               Throttled(c, k)]_vars

\* after a verification that found the digest unchanged, the next
\* getWithHash("m") is served from the cache inside the new window
C9_Witness ==
    /\ hcall["c1"].pc = "return"
    /\ hcall["c1"].why = "throttled"
    /\ InEqualWindow("m")
    /\ hashCheckCache["m"].timestamp > 0

\* ----------------------------------------------------------------- C10
\* C10: on a miss for k, or when the verified digest differs from the
\* cached one, getWithHash calls reload() once; when reload() resolves it
\* calls the digest function; when that resolves it stores the fresh value
\* with that digest, records the verification at the current time and
\* returns the fresh value.
C10_MissOrChangeReloadsAndStores ==
    [][\A c \in Callers :
        /\ \A k \in HKeys : (HGetWithHash(c, k) /\ ~PairLive(k)) =>
               (hcall'[c].pc = "reload" /\ hcall'[c].rel = 1 /\ hcall'[c].dig = 0)
        /\ (HVerifyOk(c) /\ hcall[c].read # hcall[c].cachedHash) =>
               (hcall'[c].pc = "reload" /\ hcall'[c].rel = 1)
        /\ HReloadOk(c) =>
               /\ hcall'[c].pc = "rehash"
               /\ hcall'[c].newData = hcall[c].read
               /\ hcall'[c].rel = 1
               /\ hcall'[c].dig = hcall[c].dig + 1
        /\ HRehashOk(c) =>
               /\ hcall[c].rel = 1
               /\ NcGet(hcache', DataKey(hcall[c].key), now) = hcall[c].newData
               /\ NcGet(hcache', HashKey(hcall[c].key), now) = hcall[c].read
               /\ hcache'[DataKey(hcall[c].key)].t = now + TtlSeconds
               /\ hashCheckCache'[hcall[c].key].has
               /\ hashCheckCache'[hcall[c].key].hash = hcall[c].read
               /\ hashCheckCache'[hcall[c].key].timestamp = now
               /\ hcall'[c].pc = "return"
               /\ HAnswer(c)' = hcall[c].newData]_vars

\* scenario C: the verification found another digest; the value of store
\* state 2 is cached with the digest of state 2 and is about to be returned
C10_Witness ==
    /\ hcall["c1"].pc = "return"
    /\ hcall["c1"].why = "differs"
    /\ hcall["c1"].newData = 2
    /\ NcGet(hcache, DataKey("m"), now) = 2
    /\ NcGet(hcache, HashKey("m"), now) = HashOf(2)
    /\ hashCheckCache["m"] = [has |-> TRUE, hash |-> HashOf(2), timestamp |-> now,
                              by |-> "fresh"]

\* ----------------------------------------------------------------- C11
\* C11: for every key the digest function is called at most once per
\* throttle window, however many getWithHash calls, sequential or
\* overlapping, are made for the key: a call of the digest function for k
\* is at least the throttle after the previous one for k.
C11_OneDigestCallPerWindow ==
    [][\A c \in Callers :
        hcall'[c].dig > hcall[c].dig =>
            \/ hdigAt[hcall'[c].key] = -1
            \/ now - hdigAt[hcall'[c].key] >= CheckPeriod]_vars

\* ----------------------------------------------------------------- C12
\* C12: when getChangeHash rejects in the change check of get/getAll, the
\* call does not raise: it goes on to the read with the table, the last
\* stored digest and readiness unchanged, and answers from the collection
\* loaded last, stale or not.
C12_DigestFailureServesStale ==
    [][\A c \in Callers :
        /\ RCheckDigestFail(c) =>
               (rpc'[c] = "read" /\ UNCHANGED <<rcache, lastHash, isInitialized>>)
        /\ (RRead(c) /\ rpath[c].tag = "checkFailed") =>
               /\ Answer(c) = Shaped(c, [k \in RKeys |-> InMemory(k)])
               /\ UNCHANGED <<lastHash, isInitialized>>]_vars

\* get("a") is about to answer the item loaded from store state 1 although
\* the store has moved on and the digest call of its check failed
C12_Witness ==
    /\ rpc["c1"] = "read"
    /\ rpath["c1"].tag = "checkFailed"
    /\ rop["c1"] = [op |-> "get", key |-> "a"]
    /\ rstore = 2 /\ rswap.ver = 1
    /\ Answer("c1")["a"] = ItemOf(1, "a")

\* ----------------------------------------------------------------- C13
\* C13: when loadData rejects during a reload, the reload stops there: no
\* digest call follows and the table and the last stored digest are
\* exactly what they were.
C13_LoadFailureKeepsOldCollection ==
    [][\A c \in Callers :
        RLoadFail(c) =>
            /\ rpc'[c] \in {"read", "rejected"}
            /\ UNCHANGED <<rcache, lastHash, isInitialized, rswap>>]_vars

\* the reload started by a getAll() failed in loadData; the collection of
\* store state 1 and its digest are still in place
C13_Witness ==
    /\ rpc["c1"] = "read"
    /\ rpath["c1"].tag = "loadFailed"
    /\ lastHash = Digest(1)
    /\ LiveView(rcache, now) = Collection(1)

\* ----------------------------------------------------------------- C14
\* C14: when loadData rejects during the reload that the change check of a
\* get(key)/getAll() started, the call of get/getAll is rejected with that
\* failure.
C14_LoadFailureReachesCaller ==
    [][\A c \in Callers :
        (RLoadFail(c) /\ rop[c].op \in {"get", "getAll"}) => rpc'[c] = "rejected"]_vars

\* ----------------------------------------------------------------- C17
\* C17: initialize() on an initialized cache returns at once: it calls
\* neither loadData nor getChangeHash and leaves the table, the last stored
\* digest, the check time and readiness unchanged.
C17_InitializeTwiceIsNoOp ==
    [][\A c \in Callers :
        /\ (RInitialize(c) /\ isInitialized) =>
               /\ rpc'[c] = "resolved"
               /\ rpath'[c].tag = "noop"
               /\ UNCHANGED <<rcache, lastHash, lastCheckTime, isInitialized, rswap>>
        /\ (RSettle(c) /\ rpath[c].tag = "noop") =>
               UNCHANGED <<rcache, lastHash, lastCheckTime, isInitialized, rswap>>]_vars

\* a second initialize() has returned without loading
C17_Witness ==
    /\ rpc["c1"] = "resolved"
    /\ rpath["c1"].tag = "noop"
    /\ rop["c1"].op = "init"
    /\ isInitialized
    /\ lastHash # Null

\* ----------------------------------------------------------------- C18
\* C18: when the first load fails during initialize(), initialize() rejects
\* and the cache stays not ready, so a later initialize() calls loadData
\* again; initializeServices() rethrows the rejection, and it completes
\* only with the cache ready.
C18_FailedInitializeIsFatal ==
    /\ [](boot = "started" => isInitialized)
    /\ [][\A c \in Callers :
            /\ (RLoadFail(c) /\ rop[c].op \in {"init", "boot"}) =>
                   (rpc'[c] = "rejected" /\ ~isInitialized /\ ~isInitialized')
            /\ ((RInitialize(c) \/ RInitializeServices(c)) /\ ~isInitialized) =>
                   (rpc'[c] = "load" /\ rval'[c] = rstore)
            /\ (RSettle(c) /\ rop[c].op = "boot" /\ rpc[c] = "rejected") =>
                   (boot' = "failed" /\ ~isInitialized')]_vars

\* startup has failed on the first load and a later initialize() has
\* called loadData again
C18_Witness ==
    /\ boot = "failed"
    /\ ~isInitialized
    /\ rpc["c1"] = "load"
    /\ rop["c1"].op = "init"
    /\ rswap.ver = 0

\* ----------------------------------------------------------------- C15
\* C15: when the digest function rejects while getWithHash verifies a
\* stored pair, the failure is swallowed: the call returns the value it
\* found cached.
C15_VerifyFailureServesCached ==
    [][\A c \in Callers :
        (HFail(c) /\ hcall[c].pc = "verify") =>
            /\ hcall'[c].pc = "return"
            /\ HAnswer(c)' = hcall[c].cachedData]_vars

\* ----------------------------------------------------------------- C16
\* C16: when the change detector rejects during the probe of get(k), the
\* call does not raise: it goes on to the data read and returns the data
\* value cached for k.
C16_DetectorFailureServesCached ==
    [][\A c \in Callers :
        (GDetectFail(c) /\ NcLive(gdata, gkey[c], now)) =>
            /\ gpc'[c] = "afterProbe"
            /\ gdata'[gkey[c]] = gdata[gkey[c]]]_vars

\* ----------------------------------------------------------------- C19
\* the step leaves both tiers of every key other than k as they were
OnlyKey(k) ==
    \A j \in GKeys \ {k} : gdata'[j] = gdata[j] /\ gprobe'[j] = gprobe[j]

IdsOf(rows) == {rows[i] : i \in 1..Len(rows)}

\* C20: when building one agent of a collection load fails, the loop goes
\* on with the next row and the load does not reject; a load that read its
\* rows resolves with exactly the entries whose build did not fail.
C20_FailedEntryIsSkipped ==
    /\ [](lpc = "resolved" /\ Len(lrows) > 0 => lout = IdsOf(lrows) \ lfailed)
    /\ [](lpc = "rejected" => (lwho = "loadData" /\ lidx = 0 /\ lfailed = {}))
    /\ [][LBuildFail =>
            /\ lout' = lout
            /\ lpc' = (IF lidx < Len(lrows) THEN "build" ELSE "resolved")
            /\ lidx' = (IF lidx < Len(lrows) THEN lidx + 1 ELSE lidx)]_vars

\* the load of three rows has resolved with the first and the third entry;
\* the build of the second failed
C20_Witness ==
    /\ lpc = "resolved"
    /\ lrows = <<1, 2, 3>>
    /\ lfailed = {2}
    /\ lout = {1, 3}

\* ----------------------------------------------------------------- C25
\* initialize() has completed, no change check was made since, and the
\* load of that initialize() is less than checkPeriod old (so its completion
\* is too)
JustInitialized ==
    /\ isInitialized
    /\ rchk = 0
    /\ rswap.ver # 0
    /\ now - rswap.at < CheckPeriod

\* C25: a successful initialize() counts as the last change check: a
\* get/getAll issued less than checkPeriod after initialize() completed
\* goes straight to the read and makes no digest call.
C25_InitializeStartsThrottleWindow ==
    [][\A c \in Callers : \A k \in RKeys, op \in {"get", "getAll"} :
        (RCall(c, op, k) /\ JustInitialized) =>
            (rpc'[c] = "read" /\ rpath'[c].tag = "throttled")]_vars

\* ----------------------------------------------------------------- C27
\* C27: the last stored digest changes only in the step that ends a reload
\* whose loadData resolved and whose table swap has been made, and it
\* becomes the digest that reload fetched; a failed loadData and a failed
\* digest call, of the check or of the reload, leave it as it was.
C27_DigestRecordedOnlyAfterSwap ==
    [][/\ lastHash' # lastHash =>
              \E c \in Callers :
                  /\ rpc[c] = "relDigest"
                  /\ rpath[c].tag = "swapped"
                  /\ rpc'[c] \in {"read", "resolved"}
                  /\ lastHash' = Digest(rval[c])
       /\ \A c \in Callers :
              (RLoadFail(c) \/ RReloadDigestFail(c) \/ RCheckDigestFail(c)) =>
                  UNCHANGED lastHash]_vars

\* a getAll() swapped in the collection of store state 2 and its digest
\* call failed: the digest of state 1 is still the stored one
C27_Witness ==
    \E c \in Callers :
        /\ rpc[c] = "read"
        /\ rpath[c] = [tag |-> "digestFailed", ver |-> 2]
        /\ rswap.ver = 2
        /\ lastHash = Digest(1)

\* ----------------------------------------------------------------- C28
\* C28: a digest comparison is made against the digest recorded most
\* recently: the cached digest a getWithHash compares with is the one
\* stored for the key at that moment, whatever overlapping calls did while
\* it waited, and the change check of the reload cache reloads exactly
\* when the fetched digest differs from the last stored digest as it then
\* is.
C28_ComparesWithCurrentDigest ==
    [][\A c \in Callers :
        /\ (HVerifyOk(c) /\ hcache[HashKey(hcall[c].key)].has) =>
               hcall[c].cachedHash = hcache[HashKey(hcall[c].key)].v
        /\ RCheckDigestOk(c) =>
               ((rpc'[c] = "load") <=> (Digest(rval[c]) # lastHash))]_vars

\* ----------------------------------------------------------------- C24
\* what the cache holds for key k: value, digest and verification record
FieldState(k) == <<hcache[DataKey(k)], hcache[HashKey(k)], hashCheckCache[k]>>

\* C24: the fields of an agent are independent: every step of a
\* getWithHash for one key leaves the value, the digest and the
\* verification record of every other key as they were, and starts no
\* reload() for another key.
C24_FieldsAreIndependent ==
    [][\A c \in Callers :
        hcall'[c] # hcall[c] =>
            \A k \in FieldKeys \ {IF hcall[c].pc = "idle" THEN hcall'[c].key
                                                             ELSE hcall[c].key} :
                /\ FieldState(k)' = FieldState(k)
                /\ \A d \in Callers :
                       (hcall'[d].pc = "reload" /\ hcall'[d].key = k) =>
                           (hcall[d].pc = "reload" /\ hcall[d].key = k)]_vars

\* the model field changed and was reloaded to store state 2 while the
\* pair and the verification record of the instructions field are stored
C24_Witness ==
    /\ hcall["c1"].pc = "return"
    /\ hcall["c1"].key = "m"
    /\ hcall["c1"].why = "differs"
    /\ hcall["c1"].newData = 2
    /\ PairLive("i")
    /\ hashCheckCache["i"].has

\* ----------------------------------------------------------------- C29
\* C29: every change-gated cache that has been constructed has a check
\* interval strictly smaller than its data ttl, whatever
\* options or environment values it was constructed from.
C29_CheckIntervalBelowDataTtl ==
    \A n \in CacheNames :
        built[n].made =>
            Less(built[n].checkInterval, built[n].dataCacheTtl)

\* ----------------------------------------------------------------- C30
\* C30: a change detector whose change info resolved answers, with nothing
\* recorded, true and records the fetched state; with a state recorded, it
\* answers true exactly when the fetched state differs from the record,
\* and then records the fetched state, else leaves the record; and when
\* the most recently completed call of the detector answered true, a call
\* that fetched the same state does not answer true again.
C30_DetectorContract ==
    [][\A c \in Callers :
        DInfoOk(c) =>
            LET d == dcall[c].det
                cur == dcall[c].read
            IN /\ lastKnown[d] = NoState =>
                      (dcall'[c].ret /\ lastKnown'[d] = cur)
               /\ lastKnown[d] # NoState =>
                      /\ dcall'[c].ret <=> (cur # lastKnown[d])
                      /\ lastKnown'[d] = IF dcall'[c].ret THEN cur ELSE lastKnown[d]
               /\ (dprev[d] # NoState /\ dprev[d] = cur) => ~dcall'[c].ret]_vars

\* over an unchanged store the first call answered true and recorded the
\* state, and the next call answered false
C30_Witness ==
    \E c \in Callers :
        /\ dcall[c].pc = "returned"
        /\ dcall[c].det = "hasAgentListChanged"
        /\ dcall[c].why = "compared"
        /\ ~dcall[c].ret
        /\ dstore[dcall[c].det] = 1
        /\ lastKnown[dcall[c].det] = 1

\* ----------------------------------------------------------------- C21
\* C21: a getAgent for a name that is not in the configuration list it was
\* handed, be it unknown to the store or skipped because its configuration
\* failed to build, returns null; no getAgent is rejected for such a name,
\* and agentCache.get itself never rejects.
C21_MissingNameIsNotFound ==
    /\ (apc \in {"returned", "rejected"} /\ acall.op = "getAgent" /\ acall.got
            /\ acall.arg \notin acall.configs) =>
           (apc = "returned" /\ acall.res = "null")
    /\ apc = "rejected" =>
           (acall.op = "getAgent" /\ acall.got /\ acall.arg \in acall.configs)

\* "b" is an agent of the store, its configuration was skipped by the fetch
\* of this call, and getAgent("b") returned null
C21_Witness ==
    /\ apc = "returned"
    /\ acall.op = "getAgent"
    /\ acall.arg = "b"
    /\ acall.res = "null"
    /\ acall.fet = 1
    /\ dstore[ListDetector] = 1
    /\ acall.configs = {"a"}

C23_Original_RegistryEqualsFetchedList ==
    (apc = "returned" /\ acall.op = "refresh" /\ acall.init0) =>
        /\ acall.got /\ acall.fet >= 1
        /\ agents = acall.configs

\* C23: after refresh() on an initialized manager has returned, the list
\* it was handed was fetched after both tiers were invalidated, and the
\* registry holds exactly the names of that list whose instance could be
\* created: no other entry survives, and it is the whole list when every
\* instance was created.
C23_RegistryIsFetchedListBuilt ==
    (apc = "returned" /\ acall.op = "refresh" /\ acall.init0) =>
        /\ acall.got /\ acall.fet >= 1
        /\ acall.configs \subseteq acall.seen
        /\ agents = acall.configs \ acall.failed
        /\ acall.failed = {} => agents = acall.configs

\* the registry held "b"; refresh() returned after the store went to state
\* 2 and the registry is the fetched list {"a", "c"}
C23_Witness ==
    /\ apc = "returned"
    /\ acall.op = "refresh"
    /\ acall.init0
    /\ acall.configs = {"a", "c"}
    /\ acall.failed = {}
    /\ agents = {"a", "c"}

\* ----------------------------------------------------------------- C26
\* C26: when an agentCache.get('agents') made on an initialized manager
\* has detected one list change, getAgentsFromDb has been called exactly
\* once by the time it returns.
C26_OneFetchPerDetectedChange ==
    (apc = "returned" /\ acall.op = "listAgents" /\ acall.init0 /\ acall.det = 1) =>
        acall.fet = 1

\* ----------------------------------------------------------------- C31
\* C31: a detector call whose store query fails returns false to its
\* caller and leaves the last known state as it was; hence a successful
\* call that then fetches a state different from that record answers true.
C31_FailedQueryIsNoChange ==
    [][\A c \in Callers :
        /\ DInfoFail(c) =>
               /\ dcall'[c].pc = "returned"
               /\ ~dcall'[c].ret
               /\ lastKnown' = lastKnown
        /\ (DInfoOk(c) /\ dcall[c].read # lastKnown[dcall[c].det]) => dcall'[c].ret]_vars

\* the store went from state 1, which is recorded, to state 2; a call
\* failed and the record is still state 1
C31_Witness ==
    \E c \in Callers :
        /\ dcall[c].pc = "returned"
        /\ dcall[c].why = "failed"
        /\ dcall[c].det \in {"hasMcpServersChanged", "hasAgentListChanged"}
        /\ lastKnown[dcall[c].det] = 1
        /\ dstore[dcall[c].det] = 2

\* ----------------------------------------------------------------- C32
\* C32: while the collection loaded last is that of the current store
\* state (no reload can replace it), get(k) returns the loaded item of k
\* and getAll() the whole loaded collection, however long ago it was
\* loaded.
C32_LoadedKeyStaysRetrievable ==
    \A c \in Callers :
        (rpc[c] = "read" /\ rswap.ver = rstore /\ lastHash = Digest(rstore)) =>
            IF rop[c].op = "get"
            THEN Answer(c)[rop[c].key] = Collection(rstore)[rop[c].key]
            ELSE Answer(c) = Collection(rstore)

\* ----------------------------------------------------------------- C33
\* C33: whenever no reload is in progress and the last stored digest is
\* the digest of the current store state, the collection in memory is the
\* one loaded from the current store state.
C33_EqualDigestMeansCurrentCollection ==
    ((\A c \in Callers : rpc[c] \notin {"load", "relDigest"})
        /\ lastHash = Digest(rstore)) =>
        rswap.ver = rstore

\* ----------------------------------------------------------------- C34
\* C34: whenever no getWithHash for key k is in progress and the stored
\* digest of k is the digest of the current store state, the stored value
\* of k is the value reload() returns for the current store state.
C34_EqualDigestMeansCurrentValue ==
    \A k \in HKeys :
        ((\A c \in Callers : hcall[c].pc = "idle" \/ hcall[c].key # k)
            /\ PairLive(k)
            /\ hcache[HashKey(k)].v = HashOf(hstore[k])) =>
            hcache[DataKey(k)].v = hstore[k]

\* ----------------------------------------------------------------- C35
\* C35: a data fetch that completes never replaces a stored result that
\* was read from a newer store state than its own: the data entry of a key
\* goes from older to newer results only.
C35_OlderFetchDoesNotOverwrite ==
    [][\A c \in Callers :
        (GFetchOk(c) /\ NcLive(gdata, gkey[c], now)) =>
            gdata'[gkey[c]].v >= gdata[gkey[c]].v]_vars

\* ----------------------------------------------------------------- C36
\* C36: when the store changed while the manager was at rest and
\* more than checkInterval has passed since, the next getAgent(name) for a
\* name does not answer with the instance built before the change: it asks
\* agentCache for the list.
C36_RegisteredAgentRefreshedAfterInterval ==
    [][\A n \in AgentNames, fails \in FailSets :
        (ACall("getAgent", n, fails) /\ n \in agents
            /\ asince # Undefined /\ now - asince > CheckInterval) =>
            (apc' \in {"detect", "fetch"} \/ acall'.got)]_vars

\* ----------------------------------------------------------------- C37
\* C37: when the store bound the agent to another model, its id, name and
\* description have not changed since, and more than the cache TTL and the
\* check period have passed, the agent's model resolver returns the model
\* the store binds now.
C37_ResolverFollowsRebinding ==
    [][(BResolveModel /\ bsince # Undefined
            /\ now - bsince > TtlSeconds /\ now - bsince > CheckPeriod) =>
        bres' = LoadModel(brow.modelId)]_vars

\* ----------------------------------------------------------------- C38
\* C38: while a get suspended in the refresh callback awaits the change
\* detector, the outer detector call has recorded the state it read; when
\* the nested call reads that same state it reports no change, no further
\* refresh is nested and the nested get goes on to fetch the list; and
\* every call of the manager that suspended completes.
C38_NestedRefreshTerminates ==
    /\ [][\A fails \in FailSets :
            (ADetectOk(fails) /\ adepth >= 1) =>
                /\ lastKnown[ListDetector] # NoState
                /\ (aread = lastKnown[ListDetector]) =>
                       /\ acall'.det = acall.det
                       /\ adepth' = adepth
                       /\ apc' = "fetch"]_vars
    /\ (apc \in {"detect", "fetch"}) ~> (apc \in {"returned", "rejected"})

C38_Witness ==
    /\ apc = "returned"
    /\ acall.init0
    /\ acall.det = 1
    /\ acall.fet = 2
    /\ acall.got

\* ----------------------------------------------------------------- C39
\* C39 as stated: two change checks of get/getAll callers are never in
\* progress at once.
C39_Original_NoConcurrentChecks ==
    \A c1, c2 \in Callers :
        (rpc[c1] = "chkDigest" /\ rpc[c2] = "chkDigest") => c1 = c2

\* C39, amended: a get/getAll that starts a change-check digest call does
\* so at least checkPeriod after the start of the previous one, and a
\* caller arriving inside the window skips the check even while that check
\* is still pending; a check pending for longer than checkPeriod can be
\* joined by the next one.
C39_OneCheckStartPerWindow ==
    [][\A c \in Callers, k \in RKeys, op \in {"get", "getAll"} :
        RCall(c, op, k) =>
            /\ (rpc'[c] = "chkDigest" /\ rchk # 0) => now - rchk >= CheckPeriod
            /\ (\E d \in Callers : rpc[d] = "chkDigest" /\ now - rchk < CheckPeriod) =>
                   rpc'[c] = "read"]_vars

\* one caller is answered from memory while the other's change check of the
\* same window is still waiting for its digest
C39_Witness ==
    \E c1, c2 \in Callers :
        /\ rpc[c1] = "chkDigest"
        /\ rpc[c2] = "read"
        /\ rpath[c2].tag = "throttled"
        /\ rchk = now

\* ----------------------------------------------------------------- C40
\* C40: when the fetcher's store query fails, no list is stored in the data
\* tier for the key.
C40_FailedFetchCachesNothing ==
    [][\A c \in Callers :
        GFetchEmpty(c) => ~NcLive(gdata', gkey[c], now)]_vars

====

